---- MODULE Spec2Model ----
(***************************************************************************)
(* A model of the profiling campaign tool of                               *)
(* utils/management/commands/profile.py: the trace filename parser, the    *)
(* trace store analyzer, the campaign runner (authenticate, make_request,  *)
(* run_endpoint_tests) and the retention clean-up.                         *)
(*                                                                         *)
(* Strings are sequences of one-character strings, so that the regular     *)
(* expressions, strip, split and replace of the source are computed, not   *)
(* assumed.  Python values that may be None are tagged records (PyNone,    *)
(* PyStr, PyInt, PyFloat).                                                 *)
(***************************************************************************)
EXTENDS Integers, Sequences, FiniteSets, TLC

(***************************************************************************)
(* Python values                                                           *)
(***************************************************************************)
PyNone == [t |-> "none"]
PyStr(s) == [t |-> "str", v |-> s]
PyInt(n) == [t |-> "int", v |-> n]
\* a float parsed from a decimal token: num / den, den a power of ten,
\* normalised so that equal numbers are equal records
PyFloat(num, den) == [t |-> "float", num |-> num, den |-> den]
IsNone(x) == x.t = "none"

Min(a, b) == IF a < b THEN a ELSE b
Max(a, b) == IF a > b THEN a ELSE b

(***************************************************************************)
(* Characters and strings                                                  *)
(***************************************************************************)
\* str.isdigit / \d restricted to ASCII
Digits == {"0", "1", "2", "3", "4", "5", "6", "7", "8", "9"}
\* \s and the default argument of str.strip
Whitespace == {" "}

DigitVal(c) ==
    CASE c = "0" -> 0 [] c = "1" -> 1 [] c = "2" -> 2 [] c = "3" -> 3
      [] c = "4" -> 4 [] c = "5" -> 5 [] c = "6" -> 6 [] c = "7" -> 7
      [] c = "8" -> 8 [] c = "9" -> 9

\* str.lower on one character (the upper-case letters the model uses)
LowerChar(c) ==
    CASE c = "A" -> "a" [] c = "V" -> "v" [] c = "P" -> "p" [] c = "I" -> "i"
      [] OTHER -> c

Lower(s) == [i \in 1..Len(s) |-> LowerChar(s[i])]

\* s[i:] for a 0-based offset i
Drop(s, i) == SubSeq(s, i + 1, Len(s))

\* s.startswith(sub) at 0-based offset i
StartsAt(s, sub, i) ==
    /\ i + Len(sub) <= Len(s)
    /\ \A k \in 1..Len(sub) : s[i + k] = sub[k]

\* sub in s
Contains(s, sub) == \E i \in 0..Len(s) : StartsAt(s, sub, i)

\* s.endswith(sub)
EndsWith(s, sub) == Len(sub) <= Len(s) /\ StartsAt(s, sub, Len(s) - Len(sub))

RECURSIVE LStrip(_, _)
LStrip(s, chars) ==
    IF s # <<>> /\ s[1] \in chars THEN LStrip(Tail(s), chars) ELSE s

RECURSIVE RStrip(_, _)
RStrip(s, chars) ==
    IF s # <<>> /\ s[Len(s)] \in chars
    THEN RStrip(SubSeq(s, 1, Len(s) - 1), chars) ELSE s

\* str.strip(chars)
Strip(s, chars) == RStrip(LStrip(s, chars), chars)

\* str.replace(sub, ''), sub non-empty: every non-overlapping occurrence,
\* left to right
RECURSIVE RemoveAll(_, _)
RemoveAll(s, sub) ==
    IF s = <<>> THEN <<>>
    ELSE IF StartsAt(s, sub, 0) THEN RemoveAll(Drop(s, Len(sub)), sub)
    ELSE <<s[1]>> \o RemoveAll(Tail(s), sub)

\* str.split('/')
RECURSIVE SplitSlash(_, _)
SplitSlash(s, cur) ==
    IF s = <<>> THEN <<cur>>
    ELSE IF s[1] = "/" THEN <<cur>> \o SplitSlash(Tail(s), <<>>)
    ELSE SplitSlash(Tail(s), Append(cur, s[1]))

Split(s) == SplitSlash(s, <<>>)

\* int(s) for a string of ASCII digits
RECURSIVE IntOf(_)
IntOf(s) ==
    IF s = <<>> THEN 0 ELSE 10 * IntOf(SubSeq(s, 1, Len(s) - 1)) + DigitVal(s[Len(s)])

IsDigits(s) == s # <<>> /\ \A i \in 1..Len(s) : s[i] \in Digits

RECURSIVE Pow10(_)
Pow10(k) == IF k = 0 THEN 1 ELSE 10 * Pow10(k - 1)

RECURSIVE GCD(_, _)
GCD(a, b) == IF b = 0 THEN a ELSE GCD(b, a % b)

\* the float num / den (den > 0) in lowest terms
Float(num, den) ==
    LET g == GCD(num, den) IN PyFloat(num \div g, den \div g)

\* float(tok) for a token of the form \d+\.?\d*
FloatOf(tok) ==
    LET dot  == IF \E i \in 1..Len(tok) : tok[i] = "."
                THEN CHOOSE i \in 1..Len(tok) : tok[i] = "." ELSE Len(tok) + 1
        ipart == SubSeq(tok, 1, dot - 1)
        frac  == SubSeq(tok, dot + 1, Len(tok))
    IN Float(IntOf(ipart \o frac), Pow10(Len(frac)))

\* a number (int or float) as a fraction
NumOf(x) == IF x.t = "int" THEN x.v ELSE x.num
DenOf(x) == IF x.t = "int" THEN 1 ELSE x.den

\* x + y, x / n, x < y on numbers; bool(x)
AddF(x, y) == Float(NumOf(x) * DenOf(y) + NumOf(y) * DenOf(x), DenOf(x) * DenOf(y))
DivF(x, n) == Float(NumOf(x), DenOf(x) * n)
LtF(x, y) == NumOf(x) * DenOf(y) < NumOf(y) * DenOf(x)
Truthy(x) ==
    CASE x.t = "none" -> FALSE
      [] x.t = "int" -> x.v # 0
      [] x.t = "float" -> x.num # 0
      [] x.t = "str" -> x.v # <<>>
      [] OTHER -> TRUE

(***************************************************************************)
(* Regular expressions of _parse_filename: a pattern is a sequence of      *)
(* items (a character class with a quantifier), matched greedily with      *)
(* backtracking as re.match does; a group is a range of items.             *)
(***************************************************************************)
Lit(c) == [cls |-> "lit", c |-> c, q |-> "1"]
Cls(k, q) == [cls |-> k, c |-> "", q |-> q]
LitSeq(s) == [i \in 1..Len(s) |-> Lit(s[i])]

InClass(it, c) ==
    CASE it.cls = "lit"   -> c = it.c
      [] it.cls = "d"     -> c \in Digits
      [] it.cls = "s"     -> c \in Whitespace
      [] it.cls = "notq"  -> c # "?"
      [] it.cls = "notu"  -> c # "_"
      [] it.cls = "nots"  -> c \notin Whitespace

\* how many characters from 0-based offset i on are in the item's class
RECURSIVE RunLen(_, _, _)
RunLen(it, s, i) ==
    IF i < Len(s) /\ InClass(it, s[i + 1]) THEN 1 + RunLen(it, s, i + 1) ELSE 0

\* the end offsets of items j.. matched from offset i, or a failure
RECURSIVE MatchFrom(_, _, _, _)
RECURSIVE TryCount(_, _, _, _, _, _)
MatchFrom(p, j, s, i) ==
    IF j > Len(p) THEN [ok |-> TRUE, ends |-> <<>>]
    ELSE LET it  == p[j]
             run == RunLen(it, s, i)
             hi  == IF it.q \in {"1", "?"} THEN Min(run, 1) ELSE run
             lo  == IF it.q \in {"1", "+"} THEN 1 ELSE 0
         IN TryCount(p, j, s, i, hi, lo)

TryCount(p, j, s, i, n, lo) ==
    IF n < lo THEN [ok |-> FALSE, ends |-> <<>>]
    ELSE LET r == MatchFrom(p, j + 1, s, i + n)
         IN IF r.ok THEN [ok |-> TRUE, ends |-> <<i + n>> \o r.ends]
            ELSE TryCount(p, j, s, i, n - 1, lo)

\* the duration token (\d+\.?\d*)
DurationItems == <<Cls("d", "+"), [cls |-> "lit", c |-> ".", q |-> "?"], Cls("d", "*")>>
ProfileMarker == <<"?","p","r","o","f","i","l","e","=","1">>
HtmlExt == <<".","h","t","m","l">>

\* ^(\d+\.?\d*)s\s+_\s+([^?]+)\s+\?profile=1\s+_\s+(\d+)\.html
Pattern1 ==
    [items |-> DurationItems
               \o <<Lit("s"), Cls("s", "+"), Lit("_"), Cls("s", "+"),
                    Cls("notq", "+"), Cls("s", "+")>>
               \o LitSeq(ProfileMarker)
               \o <<Cls("s", "+"), Lit("_"), Cls("s", "+"), Cls("d", "+")>>
               \o LitSeq(HtmlExt),
     groups |-> << <<1, 3>>, <<8, 8>>, <<23, 23>> >>]

\* ^(\d+\.?\d*)s\s+_\s+([^?]+)\s+\?profile=1\s+(\d+)\.html
Pattern2 ==
    [items |-> DurationItems
               \o <<Lit("s"), Cls("s", "+"), Lit("_"), Cls("s", "+"),
                    Cls("notq", "+"), Cls("s", "+")>>
               \o LitSeq(ProfileMarker)
               \o <<Cls("s", "+"), Cls("d", "+")>>
               \o LitSeq(HtmlExt),
     groups |-> << <<1, 3>>, <<8, 8>>, <<21, 21>> >>]

\* ^(\d+\.?\d*)s\s+([^?]+)\s+\?profile=1\s+(\d+)\.html
Pattern3 ==
    [items |-> DurationItems
               \o <<Lit("s"), Cls("s", "+"), Cls("notq", "+"), Cls("s", "+")>>
               \o LitSeq(ProfileMarker)
               \o <<Cls("s", "+"), Cls("d", "+")>>
               \o LitSeq(HtmlExt),
     groups |-> << <<1, 3>>, <<6, 6>>, <<19, 19>> >>]

\* ^(\d+\.?\d*)s\s+_\s+([^_]+)\s+_\s+(\d+)\.html
Pattern4 ==
    [items |-> DurationItems
               \o <<Lit("s"), Cls("s", "+"), Lit("_"), Cls("s", "+"),
                    Cls("notu", "+"), Cls("s", "+"), Lit("_"), Cls("s", "+"),
                    Cls("d", "+")>>
               \o LitSeq(HtmlExt),
     groups |-> << <<1, 3>>, <<8, 8>>, <<12, 12>> >>]

\* ^(\d+\.?\d*)s\s+([^\s]+)\s+(\d+)\.html
Pattern5 ==
    [items |-> DurationItems
               \o <<Lit("s"), Cls("s", "+"), Cls("nots", "+"), Cls("s", "+"),
                    Cls("d", "+")>>
               \o LitSeq(HtmlExt),
     groups |-> << <<1, 3>>, <<6, 6>>, <<8, 8>> >>]

\* ^(\d+)\.html
Pattern6 ==
    [items |-> <<Cls("d", "+")>> \o LitSeq(HtmlExt),
     groups |-> << <<1, 1>> >>]

patterns == <<Pattern1, Pattern2, Pattern3, Pattern4, Pattern5, Pattern6>>

\* re.match(pattern, filename): the groups of the match, or no match
ReMatch(pat, s) ==
    LET r == MatchFrom(pat.items, 1, s, 0)
        startOf(j) == IF j = 1 THEN 0 ELSE r.ends[j - 1]
    IN IF ~r.ok THEN [ok |-> FALSE, groups |-> <<>>]
       ELSE [ok |-> TRUE,
             groups |-> [g \in 1..Len(pat.groups) |->
                           SubSeq(s, startOf(pat.groups[g][1]) + 1,
                                  r.ends[pat.groups[g][2]])]]

\* the length of the match of \d+\.?\d* at 0-based offset i (0: no match)
NumberLenAt(s, i) ==
    LET n1 == RunLen(Cls("d", "+"), s, i)
        dot == IF n1 > 0 /\ i + n1 < Len(s) /\ s[i + n1 + 1] = "." THEN 1 ELSE 0
        n2 == IF n1 > 0 THEN RunLen(Cls("d", "*"), s, i + n1 + dot) ELSE 0
    IN IF n1 = 0 THEN 0 ELSE n1 + dot + n2

\* re.findall(r'\d+\.?\d*', s)
RECURSIVE FindNumbers(_, _)
FindNumbers(s, i) ==
    IF i >= Len(s) THEN <<>>
    ELSE LET n == NumberLenAt(s, i)
         IN IF n = 0 THEN FindNumbers(s, i + 1)
            ELSE <<SubSeq(s, i + 1, i + n)>> \o FindNumbers(s, i + n)

\* re.sub(r'\d+\.?\d*', '', s)
RECURSIVE SubNumbers(_, _)
SubNumbers(s, i) ==
    IF i >= Len(s) THEN <<>>
    ELSE LET n == NumberLenAt(s, i)
         IN IF n = 0 THEN <<s[i + 1]>> \o SubNumbers(s, i + 1)
            ELSE SubNumbers(s, i + n)

\* re.sub(r'\.html$', '', s)
SubHtmlEnd(s) ==
    IF EndsWith(s, HtmlExt) THEN SubSeq(s, 1, Len(s) - Len(HtmlExt)) ELSE s

\* re.sub(r'[_\s]+', ' ', s)
RECURSIVE SubSeparators(_)
SubSeparators(s) ==
    IF s = <<>> THEN <<>>
    ELSE IF s[1] \in ({"_"} \cup Whitespace)
    THEN <<" ">> \o SubSeparators(LStrip(s, {"_"} \cup Whitespace))
    ELSE <<s[1]>> \o SubSeparators(Tail(s))

(***************************************************************************)
(* ProfileAnalyzer._extract_app_from_endpoint                              *)
(***************************************************************************)
\* the chain with the versioned API test moved to the front
_extract_app_api_first(endpoint) ==
    LET endpoint_lower == Lower(endpoint)
        parts == Split(Strip(endpoint, {"/"}))
    IN IF Contains(endpoint_lower, <<"a","p","i","/","v","1">>)
       THEN (IF Len(parts) > 2 /\ parts[1] = <<"a","p","i">> /\ parts[2] = <<"v","1">>
             THEN (IF parts[3] # <<>> THEN parts[3] ELSE <<"a","p","i">>)
             ELSE <<"a","p","i">>)
       ELSE IF Contains(endpoint_lower, <<"a","d","m","i","n">>)
       THEN <<"a","d","m","i","n">>
       ELSE IF Contains(endpoint_lower, <<"a","p","i","/","v","1","/","a","u","t","h">>)
               \/ Contains(endpoint_lower, <<"a","u","t","h">>)
       THEN <<"a","u","t","h">>
       ELSE IF Contains(endpoint_lower, <<"s","c","h","e","m","a">>)
       THEN <<"a","p","i","_","s","c","h","e","m","a">>
       ELSE IF Contains(endpoint_lower, <<"s","i","l","k">>)
       THEN <<"p","r","o","f","i","l","i","n","g","_","t","o","o","l","s">>
       ELSE IF Contains(endpoint_lower, <<"r","o","s","e","t","t","a">>)
       THEN <<"p","r","o","f","i","l","i","n","g","_","t","o","o","l","s">>
       ELSE IF Contains(endpoint_lower, <<"s","t","a","t","i","c">>)
       THEN <<"s","t","a","t","i","c","_","m","e","d","i","a">>
       ELSE IF Contains(endpoint_lower, <<"m","e","d","i","a">>)
       THEN <<"s","t","a","t","i","c","_","m","e","d","i","a">>
       ELSE IF Contains(endpoint_lower, <<"f","l","o","w","e","r">>)
       THEN <<"c","e","l","e","r","y","_","m","o","n","i","t","o","r","i","n","g">>
       ELSE IF endpoint_lower \in {<<"/">>, <<>>}
       THEN <<"h","e","a","l","t","h","_","c","h","e","c","k","s">>
       ELSE IF \E error \in {<<"4","0","4">>, <<"5","0","0">>, <<"e","r","r","o","r">>} :
                  Contains(endpoint_lower, error)
       THEN <<"e","r","r","o","r","_","p","a","g","e","s">>
       ELSE IF Len(parts) > 1 THEN parts[2] ELSE <<"o","t","h","e","r">>

\* the if/elif chain of lines 1403-1434: the first test that holds decides
_extract_app_from_endpoint(endpoint) ==
    LET endpoint_lower == Lower(endpoint)
        parts == Split(Strip(endpoint, {"/"}))
    IN IF Contains(endpoint_lower, <<"a","d","m","i","n">>)
       THEN <<"a","d","m","i","n">>
       ELSE IF Contains(endpoint_lower, <<"a","p","i","/","v","1","/","a","u","t","h">>)
               \/ Contains(endpoint_lower, <<"a","u","t","h">>)
       THEN <<"a","u","t","h">>
       ELSE IF Contains(endpoint_lower, <<"s","c","h","e","m","a">>)
       THEN <<"a","p","i","_","s","c","h","e","m","a">>
       ELSE IF Contains(endpoint_lower, <<"s","i","l","k">>)
       THEN <<"p","r","o","f","i","l","i","n","g","_","t","o","o","l","s">>
       ELSE IF Contains(endpoint_lower, <<"r","o","s","e","t","t","a">>)
       THEN <<"p","r","o","f","i","l","i","n","g","_","t","o","o","l","s">>
       ELSE IF Contains(endpoint_lower, <<"s","t","a","t","i","c">>)
       THEN <<"s","t","a","t","i","c","_","m","e","d","i","a">>
       ELSE IF Contains(endpoint_lower, <<"m","e","d","i","a">>)
       THEN <<"s","t","a","t","i","c","_","m","e","d","i","a">>
       ELSE IF Contains(endpoint_lower, <<"f","l","o","w","e","r">>)
       THEN <<"c","e","l","e","r","y","_","m","o","n","i","t","o","r","i","n","g">>
       ELSE IF Contains(endpoint_lower, <<"a","p","i","/","v","1">>)
       THEN (IF Len(parts) > 2 /\ parts[1] = <<"a","p","i">> /\ parts[2] = <<"v","1">>
             THEN (IF parts[3] # <<>> THEN parts[3] ELSE <<"a","p","i">>)
             ELSE <<"a","p","i">>)
       ELSE IF endpoint_lower \in {<<"/">>, <<>>}
       THEN <<"h","e","a","l","t","h","_","c","h","e","c","k","s">>
       ELSE IF \E error \in {<<"4","0","4">>, <<"5","0","0">>, <<"e","r","r","o","r">>} :
                  Contains(endpoint_lower, error)
       THEN <<"e","r","r","o","r","_","p","a","g","e","s">>
       ELSE IF Len(parts) > 1 THEN parts[2] ELSE <<"o","t","h","e","r">>

(***************************************************************************)
(* ProfileAnalyzer._parse_filename.  st is what profile_file.stat() sees:  *)
(* [exists, mtime, size]; a stat of a file that is gone raises.            *)
(***************************************************************************)
Unknown == <<"u","n","k","n","o","w","n">>

\* the index of the first TRUE of a sequence of booleans (0: none)
FirstTrue(oks) ==
    IF \E i \in 1..Len(oks) : oks[i]
    THEN CHOOSE i \in 1..Len(oks) : oks[i] /\ \A k \in 1..(i - 1) : ~oks[k]
    ELSE 0

\* the index of the first pattern that matches (0: none): the loop of
\* lines 1341-1354 breaks at the first match
FirstMatch(filename) ==
    FirstTrue([i \in 1..Len(patterns) |-> ReMatch(patterns[i], filename).ok])

\* the locals duration, endpoint, timestamp when pattern i matched with the
\* groups g (lines 1344-1353), or when none did (i = 0, lines 1356-1368)
LocalsFor(filename, i, g) ==
    IF i = 6 THEN
        LET timestamp == g[1]
            endpoint == Strip(Strip(RemoveAll(RemoveAll(filename, HtmlExt), timestamp),
                                    {"_"}), Whitespace)
        IN [duration |-> PyNone,
            endpoint |-> IF endpoint = <<>> THEN Unknown ELSE endpoint,
            timestamp |-> PyStr(timestamp)]
    ELSE IF i > 0 THEN
        [duration |-> IF g[1] # <<>> THEN FloatOf(g[1]) ELSE PyNone,
         endpoint |-> Strip(Strip(g[2], {"_"}), Whitespace),
         timestamp |-> PyStr(g[3])]
    ELSE LET numbers == FindNumbers(filename, 0)
             endpoint == Strip(SubSeparators(SubHtmlEnd(SubNumbers(filename, 0))),
                               Whitespace)
         IN [duration |-> IF numbers # <<>> /\ Contains(numbers[1], <<".">>)
                          THEN FloatOf(numbers[1]) ELSE PyNone,
             endpoint |-> IF endpoint = <<>> THEN Unknown ELSE endpoint,
             timestamp |-> IF Len(numbers) > 1 THEN PyStr(numbers[Len(numbers)])
                           ELSE PyNone]

GroupsOf(filename, i) ==
    IF i > 0 THEN ReMatch(patterns[i], filename).groups ELSE <<>>

MatchedLocals(filename, i) == LocalsFor(filename, i, GroupsOf(filename, i))

\* the locals duration, endpoint, timestamp after the pattern loop and the
\* fallback (lines 1336-1368)
ParseLocals(filename) == MatchedLocals(filename, FirstMatch(filename))

\* strftime of an epoch
FormatTime(n) == [t |-> "strftime", epoch |-> n]

\* the last epoch datetime.fromtimestamp takes, 9999-12-31 23:59:59
MaxEpochDigits == <<"2","5","3","4","0","2","3","0","0","7","9","9">>

RECURSIVE DigitsLeq(_, _)
\* a <= b for digit strings of one length
DigitsLeq(a, b) ==
    \/ a = <<>>
    \/ DigitVal(a[1]) < DigitVal(b[1])
    \/ a[1] = b[1] /\ DigitsLeq(Tail(a), Tail(b))

\* whether datetime.fromtimestamp(int(digits)) returns (line 1374): beyond
\* the year 9999 it raises
EpochInRange(digits) ==
    LET n == LStrip(digits, {"0"})
    IN  \/ Len(n) < Len(MaxEpochDigits)
        \/ Len(n) = Len(MaxEpochDigits) /\ DigitsLeq(n, MaxEpochDigits)

\* the try block of lines 1372-1383: formatted_time and the local timestamp
TimestampBlock(timestamp, st) ==
    IF ~IsNone(timestamp) THEN
        IF IsDigits(timestamp.v) /\ EpochInRange(timestamp.v)
        THEN [formatted_time |-> FormatTime(IntOf(timestamp.v)), timestamp |-> timestamp]
        ELSE [formatted_time |-> PyStr(<<"U","n","k","n","o","w","n">>),
              timestamp |-> PyInt(0)]
    ELSE IF st.exists
        THEN [formatted_time |-> FormatTime(st.mtime), timestamp |-> PyInt(st.mtime)]
        ELSE [formatted_time |-> PyStr(<<"U","n","k","n","o","w","n">>),
              timestamp |-> PyInt(0)]

\* 'timestamp': int(timestamp) if timestamp else 0
TimestampField(timestamp) ==
    CASE timestamp.t = "str" -> PyInt(IntOf(timestamp.v))
      [] timestamp.t = "int" -> PyInt(timestamp.v)
      [] OTHER -> PyInt(0)

\* the parse with the exceptions of int() and stat() left uncaught
ParseRaisesNoExcept(timestamp, st) ==
    \/ ~st.exists
    \/ timestamp.t = "str" /\ ~(IsDigits(timestamp.v) /\ EpochInRange(timestamp.v))

\* whether an exception leaves _parse_filename: the try block catches what
\* int(timestamp), fromtimestamp and the stat for the modification time
\* raise (lines 1372-1383); the stat for the size (line 1385) is outside it
ParseRaises(timestamp, st) == ~st.exists

\* the rest of _parse_filename once the locals are set (lines 1370-1397)
ParseRecord(filename, st, loc) ==
    IF ParseRaises(loc.timestamp, st)
    THEN [raised |-> TRUE]
    ELSE [raised |-> FALSE,
          filename |-> filename,
          duration |-> loc.duration,
          endpoint |-> PyStr(loc.endpoint),
          app |-> PyStr(_extract_app_from_endpoint(loc.endpoint)),
          timestamp |-> TimestampField(TimestampBlock(loc.timestamp, st).timestamp),
          formatted_time |-> TimestampBlock(loc.timestamp, st).formatted_time,
          size |-> PyInt(st.size)]

_parse_filename(filename, st) == ParseRecord(filename, st, ParseLocals(filename))

(***************************************************************************)
(* State                                                                   *)
(***************************************************************************)
VARIABLES
    pfile,      \* the file handed to _parse_filename: [name, st]
    parsed,     \* what _parse_filename returned or raised (PyNone: not called)
    dir,        \* the trace directory: file name -> [mtime, size]
    apc,        \* where the ProfileAnalyzer is: idle, analyzing, ready, raised
    analyzer,   \* its fields profile_files, analyzed_profiles, app_groups, stats
    aloop,      \* the locals of _analyze_profiles: next index, total_duration, durations
    firstCall,  \* the first call of get_filtered_profiles: arguments and result
    lastCall,   \* the latest call of get_filtered_profiles
    cpc,        \* where handle_clean is: idle, deleting, done, error
    clean,      \* the running or last clean: options, clock, locals and output
    prevClean,  \* the clean invocation before it (PyNone: none)
    rpc,        \* where the campaign of handle_generate is: idle, login,
                \* entered, gathering, returned, raised
    campaign,   \* its inputs: endpoints, concurrent, requests_per_endpoint
    runner,     \* the ProfileRunner: session, auth_token, results
    login,      \* the login exchange: POSTs issued and the reply
    tasks,      \* the request tasks of run_endpoint_tests, in creation order
    semaphore,  \* asyncio.Semaphore(concurrent): value and waiters
    returned,   \* what run_endpoint_tests returned (PyNone: not yet)
    cmd,        \* the running or last invocation of Command.handle: action,
                \* status, the files before it, and what it wrote
    disk        \* the files besides the traces: whether the trace directory
                \* exists, the config file, the dashboard written elsewhere

parseVars == <<pfile, parsed>>
scanVars == <<apc, analyzer, aloop, firstCall, lastCall>>
cleanVars == <<cpc, clean, prevClean>>
runVars == <<rpc, campaign, runner, login, tasks, semaphore, returned>>
cmdVars == <<cmd, disk>>
vars == <<pfile, parsed, dir, apc, analyzer, aloop, firstCall, lastCall,
          cpc, clean, prevClean,
          rpc, campaign, runner, login, tasks, semaphore, returned,
          cmd, disk>>

(***************************************************************************)
(* The filenames of the model: a duration, separator, endpoint, marker,    *)
(* separator, timestamp and extension fragment each, and every short stem  *)
(* over StemChars with or without the extension.                           *)
(***************************************************************************)
MaxStemLen == 3

DurFrags == {<<>>, <<"0",".","5","s">>, <<"1","s">>, <<"0",".","0","s">>}
Sep1Frags == {<<" ","_"," ">>, <<" ">>, <<"_">>}
EndpointFrags ==
    {<<"a","p","i","/","v","1","/","u","s","e","r","s">>,
     <<"a","d","m","i","n","/","s","t","a","t","i","c">>,
     <<"a","_","b">>, <<"x","/","y">>, <<"a","_"," ">>, <<"x","/","/","y">>,
     <<>>}
MarkerFrags == {<<>>, <<" ","?","p","r","o","f","i","l","e","=","1">>}
Sep2Frags == {<<" ","_"," ">>, <<" ">>, <<>>}
TimestampFrags == {<<>>, <<"1","7">>, <<"1",".","5">>}
ExtFrags == {<<".","h","t","m","l">>, <<>>}

FragNames ==
    {d \o s1 \o e \o m \o s2 \o ts \o x :
        d \in DurFrags, s1 \in Sep1Frags, e \in EndpointFrags, m \in MarkerFrags,
        s2 \in Sep2Frags, ts \in TimestampFrags, x \in ExtFrags}

StemChars == {"1", ".", "_", " ", "a", "/"}
Stems == UNION {[1..n -> StemChars] : n \in 0..MaxStemLen}
StemNames == {s \o x : s \in Stems, x \in ExtFrags}

\* the names "<d>s _ <endpoint> ?profile=1 _ <ts>.html", also with a
\* timestamp beyond the year 9999
CanonicalName(d, endpoint, ts) ==
    d \o <<"s"," ","_"," ">> \o endpoint
      \o <<" ","?","p","r","o","f","i","l","e","=","1"," ","_"," ">> \o ts
      \o <<".","h","t","m","l">>
CanonicalParts ==
    [d : {<<"0",".","5">>, <<"1">>, <<"0",".","0">>},
     endpoint : EndpointFrags \ {<<>>},
     ts : {<<"1","7">>, <<"9","9","9","9","9","9","9","9","9","9","9","9">>}]
CanonicalNames == {CanonicalName(c.d, c.endpoint, c.ts) : c \in CanonicalParts}

\* endpoints of up to MaxSegments path segments, in canonical names
MaxSegments == 3
Segments ==
    {<<>>, <<"u","s","e","r","s">>, <<"4","0","4">>,
     <<"a","d","m","i","n">>, <<"a","u","t","h">>, <<"s","c","h","e","m","a">>,
     <<"s","i","l","k">>, <<"s","t","a","t","i","c">>, <<"f","l","o","w","e","r">>,
     <<"a","p","i","/","v","1">>, <<"A","P","I","/","V","1">>}

RECURSIVE JoinSlash(_)
JoinSlash(segs) ==
    IF Len(segs) = 1 THEN segs[1] ELSE segs[1] \o <<"/">> \o JoinSlash(Tail(segs))

AppEndpoints ==
    {JoinSlash(segs) : segs \in UNION {[1..n -> Segments] : n \in 1..MaxSegments}} \ {<<>>}
AppNames == {CanonicalName(<<"1">>, e, <<"1","7">>) : e \in AppEndpoints}

ParseNames == FragNames \cup StemNames \cup CanonicalNames \cup AppNames

\* what stat() reports of a listed file
Mtimes == {0, 1700000000}
Sizes == {0, 2048}
Stats == [exists : {TRUE}, mtime : Mtimes, size : Sizes]

(***************************************************************************)
(* SpecParse: _parse_filename applied to one listed file                   *)
(***************************************************************************)
NoFunction == [x \in {} |-> 0]
NoAnalyzer ==
    [profile_files |-> <<>>, analyzed_profiles |-> <<>>, app_groups |-> NoFunction,
     stats |-> PyNone]
NoLoop == [i |-> 0, total_duration |-> PyInt(0), durations |-> <<>>]

ParseIdle == pfile = PyNone /\ parsed = PyNone
ScanIdle ==
    /\ apc = "idle"
    /\ analyzer = NoAnalyzer
    /\ aloop = NoLoop
    /\ firstCall = PyNone
    /\ lastCall = PyNone
CleanIdle ==
    /\ cpc = "idle"
    /\ clean = PyNone
    /\ prevClean = PyNone
NoSemaphore == [value |-> 0, waiters |-> <<>>]
\* no invocation yet; the trace directory exists, no config file
CmdIdle ==
    /\ cmd = PyNone
    /\ disk = [profiles |-> TRUE, config |-> PyNone, output |-> PyNone]
RunIdle ==
    /\ rpc = "none"
    /\ campaign = PyNone
    /\ runner = PyNone
    /\ login = PyNone
    /\ tasks = <<>>
    /\ semaphore = NoSemaphore
    /\ returned = PyNone

InitParse ==
    /\ CmdIdle
    /\ RunIdle
    /\ pfile \in [name : ParseNames, st : Stats]
    /\ parsed = PyNone
    /\ dir = NoFunction
    /\ ScanIdle
    /\ CleanIdle

ParseFilename ==
    /\ pfile # PyNone
    /\ parsed = PyNone
    /\ parsed' = _parse_filename(pfile.name, pfile.st)
    /\ UNCHANGED <<pfile, dir, scanVars, cleanVars, runVars, cmdVars>>

NextParse == ParseFilename

SpecParse == InitParse /\ [][NextParse]_vars

(***************************************************************************)
(* The trace directory                                                     *)
(***************************************************************************)
\* profiles_dir.glob('*.html'): the names of the directory that end in .html
Glob(d) == {n \in DOMAIN d : EndsWith(n, HtmlExt)}

\* the orders in which a glob may list a set of names
Orders(S) == {o \in [1..Cardinality(S) -> S] : \A i, j \in DOMAIN o : i # j => o[i] # o[j]}

\* profile_file.stat()
Stat(d, n) ==
    IF n \in DOMAIN d THEN [exists |-> TRUE, mtime |-> d[n].mtime, size |-> d[n].size]
    ELSE [exists |-> FALSE, mtime |-> 0, size |-> 0]

(***************************************************************************)
(* ProfileAnalyzer: __init__, _analyze_profiles, get_filtered_profiles     *)
(***************************************************************************)
\* defaultdict: d[k] with the default for a missing key
GetOr(d, k, default) == IF k \in DOMAIN d THEN d[k] ELSE default
Put(d, k, v) == [x \in DOMAIN d \cup {k} |-> IF x = k THEN v ELSE d[x]]

\* __init__ up to the call of _analyze_profiles (lines 1274-1286)
Construct ==
    /\ apc = "idle"
    /\ \E order \in Orders(Glob(dir)) :
         analyzer' =
            [profile_files |-> order,
             analyzed_profiles |-> <<>>,
             app_groups |-> NoFunction,
             stats |-> [total_files |-> Len(order), total_size |-> 0,
                        avg_duration |-> PyInt(0), fastest |-> PyNone,
                        slowest |-> PyNone, apps |-> NoFunction]]
    /\ aloop' = [i |-> 0, total_duration |-> PyInt(0), durations |-> <<>>]
    /\ apc' = "analyzing"
    /\ UNCHANGED <<parseVars, dir, firstCall, lastCall, cleanVars, runVars, cmdVars>>

\* the loop body with the size and app accounting put under the duration test
FoldKnownOnly(a, analysis) ==
    LET app == analysis.app.v
        known == Truthy(analysis.duration)
        st == a.stats
    IN [a EXCEPT
          !.analyzed_profiles = Append(@, analysis),
          !.app_groups = Put(@, app, Append(GetOr(@, app, <<>>), analysis)),
          !.stats = [st EXCEPT
              !.total_size = IF known THEN @ + analysis.size.v ELSE @,
              !.apps = IF known THEN Put(@, app, GetOr(@, app, 0) + 1) ELSE @,
              !.fastest = IF known /\ (st.fastest = PyNone
                                       \/ LtF(analysis.duration, st.fastest.duration))
                          THEN analysis ELSE @,
              !.slowest = IF known /\ (st.slowest = PyNone
                                       \/ LtF(st.slowest.duration, analysis.duration))
                          THEN analysis ELSE @]]

\* the body of the loop of _analyze_profiles for one analysis (lines 1296-1309)
Fold(a, analysis) ==
    LET app == analysis.app.v
        known == Truthy(analysis.duration)
        st == a.stats
    IN [a EXCEPT
          !.analyzed_profiles = Append(@, analysis),
          !.app_groups = Put(@, app, Append(GetOr(@, app, <<>>), analysis)),
          !.stats = [st EXCEPT
              !.total_size = @ + analysis.size.v,
              !.apps = Put(@, app, GetOr(@, app, 0) + 1),
              !.fastest = IF known /\ (st.fastest = PyNone
                                       \/ LtF(analysis.duration, st.fastest.duration))
                          THEN analysis ELSE @,
              !.slowest = IF known /\ (st.slowest = PyNone
                                       \/ LtF(st.slowest.duration, analysis.duration))
                          THEN analysis ELSE @]]

\* one iteration of the loop of _analyze_profiles, given what
\* _parse_filename did (lines 1296-1309)
AnalyzeWith(analysis) ==
    IF analysis.raised
    THEN /\ apc' = "raised"
         /\ UNCHANGED <<analyzer, aloop>>
    ELSE /\ analyzer' = Fold(analyzer, analysis)
         /\ aloop' =
              IF Truthy(analysis.duration)
              THEN [i |-> aloop.i + 1,
                    total_duration |-> AddF(aloop.total_duration, analysis.duration),
                    durations |-> Append(aloop.durations, analysis.duration)]
              ELSE [aloop EXCEPT !.i = @ + 1]
         /\ apc' = "analyzing"

\* the file the loop of _analyze_profiles is at
CurrentFile == analyzer.profile_files[aloop.i + 1]

\* one iteration of the loop of _analyze_profiles (lines 1294-1309)
AnalyzeStep ==
    /\ apc = "analyzing"
    /\ aloop.i < Len(analyzer.profile_files)
    /\ AnalyzeWith(_parse_filename(CurrentFile, Stat(dir, CurrentFile)))
    /\ UNCHANGED <<parseVars, dir, firstCall, lastCall, cleanVars, runVars, cmdVars>>

\* the end of _analyze_profiles (lines 1311-1312) and of __init__
AnalyzeFinish ==
    /\ apc = "analyzing"
    /\ aloop.i = Len(analyzer.profile_files)
    /\ analyzer' =
         IF aloop.durations # <<>>
         THEN [analyzer EXCEPT !.stats.avg_duration =
                 DivF(aloop.total_duration, Len(aloop.durations))]
         ELSE analyzer
    /\ apc' = "ready"
    /\ UNCHANGED <<parseVars, dir, aloop, firstCall, lastCall, cleanVars, runVars, cmdVars>>

\* the sort key of get_filtered_profiles (lines 1443-1448)
SortKey(p, sort_by) ==
    CASE sort_by = "time" -> p.timestamp
      [] sort_by = "duration" -> (IF Truthy(p.duration) THEN p.duration ELSE PyInt(0))
      [] sort_by = "size" -> p.size

\* x put after the elements of the sorted s whose key is not below its own
InsertDesc(s, x, sort_by) ==
    LET below == {i \in 1..Len(s) : LtF(SortKey(s[i], sort_by), SortKey(x, sort_by))}
        at == IF below = {} THEN Len(s) + 1
              ELSE CHOOSE i \in below : \A k \in below : i <= k
    IN SubSeq(s, 1, at - 1) \o <<x>> \o SubSeq(s, at, Len(s))

\* x put after the elements of the sorted s whose key is not above its own
InsertAsc(s, x, sort_by) ==
    LET above == {i \in 1..Len(s) : LtF(SortKey(x, sort_by), SortKey(s[i], sort_by))}
        at == IF above = {} THEN Len(s) + 1
              ELSE CHOOSE i \in above : \A k \in above : i <= k
    IN SubSeq(s, 1, at - 1) \o <<x>> \o SubSeq(s, at, Len(s))

\* list.sort(key=...) without reverse=True: smallest key first
RECURSIVE SortAsc(_, _)
SortAsc(s, sort_by) ==
    IF s = <<>> THEN <<>>
    ELSE InsertAsc(SortAsc(SubSeq(s, 1, Len(s) - 1), sort_by), s[Len(s)], sort_by)

\* list.sort(key=..., reverse=True): stable, largest key first
RECURSIVE SortDesc(_, _)
SortDesc(s, sort_by) ==
    IF s = <<>> THEN <<>>
    ELSE InsertDesc(SortDesc(SubSeq(s, 1, Len(s) - 1), sort_by), s[Len(s)], sort_by)

\* profiles[:k]
Slice(s, k) ==
    IF k >= 0 THEN SubSeq(s, 1, Min(k, Len(s)))
    ELSE SubSeq(s, 1, Max(Len(s) + k, 0))

\* [p for p in profiles if p['app'] == app_filter]
RECURSIVE FilterApp(_, _)
FilterApp(s, app_filter) ==
    IF s = <<>> THEN <<>>
    ELSE (IF s[1].app = app_filter THEN <<s[1]>> ELSE <<>>)
         \o FilterApp(Tail(s), app_filter)

\* get_filtered_profiles with the limit applied before the sort
get_filtered_profiles_limit_first(analyzed_profiles, app_filter, limit, sort_by) ==
    LET filtered == IF Truthy(app_filter) THEN FilterApp(analyzed_profiles, app_filter)
                    ELSE analyzed_profiles
        cut == IF Truthy(limit) THEN Slice(filtered, limit.v) ELSE filtered
    IN IF sort_by \in {"time", "duration", "size"} THEN SortDesc(cut, sort_by) ELSE cut

\* get_filtered_profiles (lines 1436-1453) on a copy of analyzed_profiles
get_filtered_profiles(analyzed_profiles, app_filter, limit, sort_by) ==
    LET filtered == IF Truthy(app_filter) THEN FilterApp(analyzed_profiles, app_filter)
                    ELSE analyzed_profiles
        sorted == IF sort_by \in {"time", "duration", "size"}
                  THEN SortDesc(filtered, sort_by) ELSE filtered
    IN IF Truthy(limit) THEN Slice(sorted, limit.v) ELSE sorted

\* the arguments the model calls get_filtered_profiles with
MaxLimit == 3
AppFilters == {PyNone, PyStr(<<"u","s","e","r","s">>)}
Limits == {PyNone} \cup {PyInt(k) : k \in 0..MaxLimit}
SortKeys == {"time", "duration", "size"}

\* a call of get_filtered_profiles on the constructed analyzer
GetFiltered ==
    /\ apc = "ready"
    /\ \E app_filter \in AppFilters, limit \in Limits, sort_by \in SortKeys :
         LET call == [app_filter |-> app_filter, limit |-> limit, sort_by |-> sort_by,
                      result |-> get_filtered_profiles(analyzer.analyzed_profiles,
                                                       app_filter, limit, sort_by)]
         IN /\ lastCall' = call
            /\ firstCall' = IF firstCall = PyNone THEN call ELSE firstCall
    /\ UNCHANGED <<parseVars, dir, apc, analyzer, aloop, cleanVars, runVars, cmdVars>>

(***************************************************************************)
(* The files of the model's trace directories                              *)
(***************************************************************************)
MaxFiles == 3

File1 == <<"0",".","5","s"," ","_"," ","a","p","i","/","v","1","/","u","s","e","r","s"," ","?","p","r","o","f","i","l","e","=","1"," ","_"," ","1","7",".","h","t","m","l">>
File2 == <<"1","s"," ","x","/","y"," ","1","7",".","h","t","m","l">>
File3 == <<"1","7",".","h","t","m","l">>
File4 == <<"0",".","0","s"," ","a","p","i","/","v","1","/","u","s","e","r","s"," ","5",".","h","t","m","l">>
File5 == <<"a","_","b",".","h","t","m","l">>
File6 == <<"1",".","5"," ","x",".","h","t","m","l">>
File7 == <<"n","o","t","e","s",".","t","x","t">>

FileTable ==
    [n \in {File1, File2, File3, File4, File5, File6, File7} |->
        CASE n = File1 -> [mtime |-> 1700000000, size |-> 2048]
          [] n = File2 -> [mtime |-> 1700000000, size |-> 100]
          [] n = File3 -> [mtime |-> 1700000100, size |-> 100]
          [] n = File4 -> [mtime |-> 1700000100, size |-> 0]
          [] n = File5 -> [mtime |-> 1700000200, size |-> 7]
          [] n = File6 -> [mtime |-> 1700000000, size |-> 4096]
          [] n = File7 -> [mtime |-> 1600000000, size |-> 1]]

\* the directories that hold at most MaxFiles of the given files
Dirs(names) ==
    {[n \in S |-> FileTable[n]] : S \in {T \in SUBSET names : Cardinality(T) <= MaxFiles}}

(***************************************************************************)
(* SpecScan: a ProfileAnalyzer constructed over a directory                *)
(* SpecFilter: calls of get_filtered_profiles on the constructed analyzer  *)
(***************************************************************************)
InitScan ==
    /\ CmdIdle
    /\ RunIdle
    /\ ParseIdle
    /\ dir \in Dirs(DOMAIN FileTable)
    /\ apc = "idle"
    /\ analyzer = NoAnalyzer
    /\ aloop = NoLoop
    /\ firstCall = PyNone
    /\ lastCall = PyNone
    /\ CleanIdle

NextScan == Construct \/ AnalyzeStep \/ AnalyzeFinish

SpecScan == InitScan /\ [][NextScan]_vars

\* the sweeper or another process deletes a file of the directory while
\* the loop of _analyze_profiles runs over the listing
ExternalUnlink ==
    /\ apc = "analyzing"
    /\ \E n \in DOMAIN dir : dir' = [x \in DOMAIN dir \ {n} |-> dir[x]]
    /\ UNCHANGED <<parseVars, apc, analyzer, aloop, firstCall, lastCall,
                   cleanVars, runVars, cmdVars>>

(***************************************************************************)
(* SpecScanRace: the scan with files deleted under it                      *)
(***************************************************************************)
NextScanRace == NextScan \/ ExternalUnlink

SpecScanRace == InitScan /\ [][NextScanRace]_vars

InitFilter ==
    /\ CmdIdle
    /\ RunIdle
    /\ ParseIdle
    /\ dir \in Dirs({File1, File2, File3, File4})
    /\ apc = "idle"
    /\ analyzer = NoAnalyzer
    /\ aloop = NoLoop
    /\ firstCall = PyNone
    /\ lastCall = PyNone
    /\ CleanIdle

NextFilter == Construct \/ AnalyzeStep \/ AnalyzeFinish \/ GetFiltered

SpecFilter == InitFilter /\ [][NextFilter]_vars

(***************************************************************************)
(* Command.handle_clean.  The clock and the modification times are whole   *)
(* seconds.                                                                *)
(***************************************************************************)
SecondsPerDay == 86400

\* time.time() - (options['days'] * 24 * 3600)
Cutoff(now, days) == now - days * SecondsPerDay

\* the selection with <= for <
IsOldInclusive(st, cutoff_time) == st.mtime <= cutoff_time

\* profile_file.stat().st_mtime < cutoff_time (line 362)
IsOld(st, cutoff_time) == st.mtime < cutoff_time

\* the files the loop of lines 361-363 selects, as a set
Candidates(d, cutoff_time) == {n \in Glob(d) : IsOld(Stat(d, n), cutoff_time)}

\* the directory after file.unlink()
Unlink(d, n) == [x \in DOMAIN d \ {n} |-> d[x]]

\* the state of an invocation after lines 353-378: the candidates are
\* listed in the order of the glob; a dry run only reports them
Selected(days, dry_run, now, files_to_delete) ==
    [days |-> days, dry_run |-> dry_run, now |-> now, before |-> dir,
     files_to_delete |-> files_to_delete, i |-> 0,
     reported |-> IF dry_run THEN files_to_delete ELSE <<>>,
     deleted |-> <<>>]

DaysValues == {-1, 0, 7}
Now0 == 19676 * SecondsPerDay
Nows == {Now0, Now0 + 1}

\* handle_clean with the dry_run option not honoured
CleanStartNoDryRun ==
    /\ cpc \in {"idle", "done", "error"}
    /\ prevClean = PyNone
    /\ \E days \in DaysValues, dry_run \in BOOLEAN, now \in Nows :
         \E files_to_delete \in Orders(Candidates(dir, Cutoff(now, days))) :
            /\ clean' = Selected(days, dry_run, now, files_to_delete)
            /\ cpc' = IF files_to_delete = <<>> THEN "done" ELSE "deleting"
    /\ prevClean' = clean
    /\ UNCHANGED <<parseVars, dir, scanVars, runVars, cmdVars>>

\* handle_clean up to the deletion loop (lines 351-378); the model runs a
\* clean and one more after it
CleanStart ==
    /\ cpc \in {"idle", "done", "error"}
    /\ prevClean = PyNone
    /\ \E days \in DaysValues, dry_run \in BOOLEAN, now \in Nows :
         \E files_to_delete \in Orders(Candidates(dir, Cutoff(now, days))) :
            /\ clean' = Selected(days, dry_run, now, files_to_delete)
            /\ cpc' = IF files_to_delete = <<>> \/ dry_run THEN "done" ELSE "deleting"
    /\ prevClean' = clean
    /\ UNCHANGED <<parseVars, dir, scanVars, runVars, cmdVars>>

\* one iteration of the deletion loop (lines 380-382)
CleanUnlink ==
    /\ cpc = "deleting"
    /\ clean.i < Len(clean.files_to_delete)
    /\ dir' = Unlink(dir, clean.files_to_delete[clean.i + 1])
    /\ clean' = [clean EXCEPT !.i = @ + 1,
                              !.deleted = Append(@, clean.files_to_delete[clean.i + 1])]
    /\ UNCHANGED <<parseVars, scanVars, cpc, prevClean, runVars, cmdVars>>

\* a failing file.unlink() that the loop passes over
CleanUnlinkSkipped ==
    /\ cpc = "deleting"
    /\ clean.i < Len(clean.files_to_delete)
    /\ clean' = [clean EXCEPT !.i = @ + 1]
    /\ UNCHANGED <<parseVars, dir, scanVars, cpc, prevClean, runVars, cmdVars>>

\* file.unlink() raises (the file cannot be removed): the exception leaves
\* handle_clean and handle turns it into a CommandError (lines 97-98)
CleanUnlinkFails ==
    /\ cpc = "deleting"
    /\ clean.i < Len(clean.files_to_delete)
    /\ cpc' = "error"
    /\ UNCHANGED <<parseVars, dir, scanVars, clean, prevClean, runVars, cmdVars>>

\* the end of the deletion loop (lines 384-386)
CleanFinish ==
    /\ cpc = "deleting"
    /\ clean.i = Len(clean.files_to_delete)
    /\ cpc' = "done"
    /\ UNCHANGED <<parseVars, dir, scanVars, clean, prevClean, runVars, cmdVars>>

(***************************************************************************)
(* SpecClean: clean invocations on a directory of old and recent files     *)
(***************************************************************************)
OldFile == <<"o","l","d",".","h","t","m","l">>

\* ten days, exactly seven days and one day before Now0
CleanMtimes == {Now0 - 10 * SecondsPerDay, Now0 - 7 * SecondsPerDay, Now0 - SecondsPerDay}
CleanNames == {OldFile, File3, File5, File7}

CleanDirs ==
    UNION {[S -> [mtime : CleanMtimes, size : {2048}]] :
             S \in {T \in SUBSET CleanNames : Cardinality(T) <= MaxFiles}}

InitClean ==
    /\ CmdIdle
    /\ RunIdle
    /\ ParseIdle
    /\ ScanIdle
    /\ CleanIdle
    /\ dir \in CleanDirs

NextClean == CleanStart \/ CleanUnlink \/ CleanUnlinkFails \/ CleanFinish

SpecClean == InitClean /\ [][NextClean]_vars

(***************************************************************************)
(* ProfileRunner: one campaign of handle_generate (lines 157-194)          *)
(***************************************************************************)
PyList(l) == [t |-> "list", v |-> l]
PyDict(d) == [t |-> "dict", v |-> d]

\* ProfileRunner.__init__ (lines 1063-1070); session: whether it is open
NewRunner == [session |-> FALSE, auth_token |-> PyNone, results |-> <<>>]

\* what authenticate stores whatever the status of the reply
TokenOfAnyStatus(auth_token, status, body) ==
    IF body.json THEN body.access ELSE auth_token

\* self.auth_token after the reply to the login POST (lines 1101-1108):
\* data.get("access") for status 200; response.json() raising on a body
\* that is no JSON is caught and leaves the token as it was
TokenOf(auth_token, status, body) ==
    IF status = 200 /\ body.json THEN body.access ELSE auth_token

Bearer == <<"B","e","a","r","e","r"," ">>

\* get_auth_headers (lines 1110-1114)
get_auth_headers(auth_token) ==
    IF Truthy(auth_token) THEN PyDict([Authorization |-> Bearer \o auth_token.v])
    ELSE PyDict(NoFunction)

\* request_kwargs of make_request (lines 1132-1136): headers are passed
\* only for an endpoint that needs auth
request_kwargs(endpoint_config, auth_token) ==
    [headers |-> IF endpoint_config.auth THEN get_auth_headers(auth_token)
                 ELSE PyNone]

\* the profiling parameter (lines 1124-1127)
ProfileParam == <<"p","r","o","f","i","l","e","=","1">>
WithProfileParam(endpoint) ==
    IF Contains(endpoint, <<"?">>) THEN endpoint \o <<"&">> \o ProfileParam
    ELSE endpoint \o <<"?">> \o ProfileParam

\* success with the upper end of the range included
SuccessUpTo400(status) == 200 <= status /\ status <= 400

\* 200 <= response.status < 400 (line 1149)
Success(status) == 200 <= status /\ status < 400

\* the result of a request that got a response (lines 1143-1152)
ResponseResult(endpoint_config, status) ==
    [endpoint |-> WithProfileParam(endpoint_config.endpoint),
     status |-> status,
     success |-> Success(status),
     error |-> PyNone,
     auth_used |-> endpoint_config.auth]

\* the result of a request that raised (lines 1160-1169); e is str(e)
ExceptionResult(endpoint_config, e) ==
    [endpoint |-> WithProfileParam(endpoint_config.endpoint),
     status |-> 0,
     success |-> FALSE,
     error |-> PyStr(e),
     auth_used |-> endpoint_config.auth]

\* a coroutine make_request(endpoint_config) that was created and not
\* awaited yet (line 1183): no permit, no request sent, no result; raised
\* tells whether its request raised; nth is history, not a field of the
\* program: the place of the task among the ended ones (0: not recorded)
NewTask(endpoint_config) ==
    [endpoint_config |-> endpoint_config, st |-> "created", permit |-> FALSE,
     request |-> PyNone, raised |-> FALSE, result |-> PyNone, nth |-> 0]

\* one task for every endpoint, whatever requests_per_endpoint
TasksOncePerEndpoint(endpoints, requests_per_endpoint) ==
    [k \in 1..Len(endpoints) |-> NewTask(endpoints[k])]

\* the tasks list of lines 1180-1184: the endpoints in their order, each
\* requests_per_endpoint times
Tasks(endpoints, requests_per_endpoint) ==
    [k \in 1..(Len(endpoints) * requests_per_endpoint) |->
        NewTask(endpoints[((k - 1) \div requests_per_endpoint) + 1])]

\* a semaphore that never holds anybody back
NeverLocked(sem) == FALSE

\* asyncio.Semaphore.locked: no permit left, or somebody is waiting
Locked(sem) == sem.value = 0 \/ sem.waiters # <<>>

InFlight == {i \in DOMAIN tasks : tasks[i].st = "inflight"}
Holding == {i \in DOMAIN tasks : tasks[i].permit}

\* the place of the task that ends now among the ended tasks, recorded in
\* the campaigns that keep the order of completion
Place ==
    IF campaign.ranked
    THEN Cardinality({i \in DOMAIN tasks : tasks[i].st = "done"}) + 1
    ELSE 0

\* the task sends its request: make_request up to session.request
\* (lines 1118-1139)
Sent(task) ==
    [task EXCEPT !.st = "inflight",
                 !.request = request_kwargs(task.endpoint_config, runner.auth_token)]

\* a release that gives the permit back and wakes nobody
ReleasedNoWakeup(i, raised, result) ==
    [tasks |-> [tasks EXCEPT ![i].st = "done", ![i].permit = FALSE,
                             ![i].raised = raised, ![i].result = result,
                             ![i].nth = Place],
     semaphore |-> [semaphore EXCEPT !.value = @ + 1]]

\* semaphore and tasks after task i returned result and left
\* `async with semaphore` (lines 1189-1190): the permit goes to the first
\* waiter if there is one, and back to the semaphore otherwise
Released(i, raised, result) ==
    LET done == [tasks EXCEPT ![i].st = "done", ![i].permit = FALSE,
                              ![i].raised = raised, ![i].result = result,
                              ![i].nth = Place]
    IN  IF semaphore.waiters = <<>>
        THEN [tasks |-> done,
              semaphore |-> [semaphore EXCEPT !.value = @ + 1]]
        ELSE [tasks |-> [done EXCEPT ![Head(semaphore.waiters)].st = "woken",
                                     ![Head(semaphore.waiters)].permit = TRUE],
              semaphore |-> [semaphore EXCEPT !.waiters = Tail(@)]]

(***************************************************************************)
(* The campaigns of the model: endpoint lists over two endpoint            *)
(* descriptors, of at most MaxTasks tasks, and what the service replies.   *)
(***************************************************************************)
MaxTasks == 3
MaxConcurrent == 2

EndpointPool ==
    {[endpoint |-> <<"/","h">>, auth |-> FALSE],
     [endpoint |-> <<"/","m","e","?","x">>, auth |-> TRUE]}
EndpointLists == UNION {[1..n -> EndpointPool] : n \in 0..MaxTasks}
Campaigns ==
    {c \in [endpoints : EndpointLists, concurrent : 1..MaxConcurrent,
            requests_per_endpoint : 0..MaxTasks, ranked : {FALSE}] :
        Len(c.endpoints) * c.requests_per_endpoint <= MaxTasks}

\* the two ends of the success range and their neighbours
Statuses == {199, 200, 399, 400}
\* str(e) of the exception of a request: asyncio.TimeoutError() has the
\* empty text
Errors == {<<>>, <<"r","e","f","u","s","e","d">>}

Jwt == <<"j","w","t">>
NotJson == [json |-> FALSE]
Json(access) == [json |-> TRUE, access |-> access]
LoginReplies ==
    {[raised |-> FALSE, status |-> 200, body |-> Json(PyStr(Jwt))],
     [raised |-> FALSE, status |-> 200, body |-> Json(PyNone)],
     [raised |-> FALSE, status |-> 200, body |-> NotJson],
     [raised |-> FALSE, status |-> 204, body |-> Json(PyStr(Jwt))],
     [raised |-> FALSE, status |-> 401, body |-> Json(PyStr(Jwt))],
     [raised |-> FALSE, status |-> 500, body |-> NotJson]}

\* __aenter__ up to the login POST of authenticate (lines 1072-1100)
Enter ==
    /\ rpc = "idle"
    /\ runner' = [runner EXCEPT !.session = TRUE]
    /\ login' = [login EXCEPT !.posts = @ + 1]
    /\ rpc' = "login"
    /\ UNCHANGED <<parseVars, dir, scanVars, cleanVars, cmdVars, campaign, tasks,
                   semaphore, returned>>

\* the login POST is answered (lines 1100-1106)
AuthenticateReply ==
    /\ rpc = "login"
    /\ \E reply \in LoginReplies :
         /\ runner' = [runner EXCEPT
                          !.auth_token = TokenOf(@, reply.status, reply.body)]
         /\ login' = [login EXCEPT !.reply = reply]
    /\ rpc' = "entered"
    /\ UNCHANGED <<parseVars, dir, scanVars, cleanVars, cmdVars, campaign, tasks,
                   semaphore, returned>>

\* the login POST raises: connection error or timeout (lines 1107-1108)
AuthenticateRaises ==
    /\ rpc = "login"
    /\ \E e \in Errors : login' = [login EXCEPT !.reply = [raised |-> TRUE, error |-> e]]
    /\ rpc' = "entered"
    /\ UNCHANGED <<parseVars, dir, scanVars, cleanVars, cmdVars, campaign, runner,
                   tasks, semaphore, returned>>

\* run_endpoint_tests up to the await of gather (lines 1175-1193)
RunEndpointTests ==
    /\ rpc = "entered"
    /\ tasks' = Tasks(campaign.endpoints, campaign.requests_per_endpoint)
    /\ semaphore' = [value |-> campaign.concurrent, waiters |-> <<>>]
    /\ rpc' = "gathering"
    /\ UNCHANGED <<parseVars, dir, scanVars, cleanVars, cmdVars, campaign, runner,
                   login, returned>>

\* the first step of a task of gather, in the order of their creation:
\* limited_request takes a permit and sends the request, or waits
\* (lines 1188-1190)
LimitedRequest ==
    /\ rpc = "gathering"
    /\ \E i \in DOMAIN tasks :
         /\ tasks[i].st = "created"
         /\ \A j \in 1..(i - 1) : tasks[j].st # "created"
         /\ IF Locked(semaphore)
            THEN /\ tasks' = [tasks EXCEPT ![i].st = "waiting"]
                 /\ semaphore' = [semaphore EXCEPT !.waiters = Append(@, i)]
            ELSE /\ tasks' = [tasks EXCEPT ![i] = Sent([@ EXCEPT !.permit = TRUE])]
                 /\ semaphore' = [semaphore EXCEPT !.value = @ - 1]
    /\ UNCHANGED <<parseVars, dir, scanVars, cleanVars, cmdVars, rpc, campaign, runner,
                   login, returned>>

\* a task that was handed a permit runs again and sends its request
Resume ==
    /\ rpc = "gathering"
    /\ \E i \in DOMAIN tasks :
         /\ tasks[i].st = "woken"
         /\ tasks' = [tasks EXCEPT ![i] = Sent(@)]
    /\ UNCHANGED <<parseVars, dir, scanVars, cleanVars, cmdVars, rpc, campaign, runner,
                   login, semaphore, returned>>

\* a request is answered (lines 1139-1156) and its task ends
Response ==
    /\ rpc = "gathering"
    /\ \E i \in InFlight, status \in Statuses :
         LET r == Released(i, FALSE, ResponseResult(tasks[i].endpoint_config, status))
         IN  tasks' = r.tasks /\ semaphore' = r.semaphore
    /\ UNCHANGED <<parseVars, dir, scanVars, cleanVars, cmdVars, rpc, campaign, runner,
                   login, returned>>

\* make_request without its except clause: the exception leaves the task,
\* gather and run_endpoint_tests
RequestRaisesUncaught ==
    /\ rpc = "gathering"
    /\ \E i \in InFlight, e \in Errors : rpc' = "raised"
    /\ UNCHANGED <<parseVars, dir, scanVars, cleanVars, cmdVars, campaign, runner,
                   login, tasks, semaphore, returned>>

\* a request raises, connection error or the timeout of the session
\* (line 1075): make_request returns the failed result (lines 1158-1173)
\* and its task ends
RequestRaises ==
    /\ rpc = "gathering"
    /\ \E i \in InFlight, e \in Errors :
         LET r == Released(i, TRUE, ExceptionResult(tasks[i].endpoint_config, e))
         IN  tasks' = r.tasks /\ semaphore' = r.semaphore
    /\ UNCHANGED <<parseVars, dir, scanVars, cleanVars, cmdVars, rpc, campaign, runner,
                   login, returned>>

\* a gather that gives the results in the order the tasks ended in
GatheredAsEnded ==
    [k \in DOMAIN tasks |-> tasks[CHOOSE i \in DOMAIN tasks : tasks[i].nth = k].result]

\* what asyncio.gather returns (line 1193): the results in the order of
\* the awaitables it was given
Gathered == [i \in DOMAIN tasks |-> tasks[i].result]

\* every task has ended: gather gives their results in the order of the
\* tasks and run_endpoint_tests returns them (lines 1193-1206)
GatherReturn ==
    /\ rpc = "gathering"
    /\ \A i \in DOMAIN tasks : tasks[i].st = "done"
    /\ returned' = PyList(Gathered)
    /\ runner' = [runner EXCEPT !.results = @ \o Gathered]
    /\ rpc' = "returned"
    /\ UNCHANGED <<parseVars, dir, scanVars, cleanVars, cmdVars, campaign, login, tasks,
                   semaphore>>

(***************************************************************************)
(* SpecRun: a campaign from the construction of the runner to the return   *)
(* of run_endpoint_tests                                                   *)
(***************************************************************************)
InitRun ==
    /\ CmdIdle
    /\ ParseIdle
    /\ dir = NoFunction
    /\ ScanIdle
    /\ CleanIdle
    /\ rpc = "idle"
    /\ campaign \in Campaigns
    /\ runner = NewRunner
    /\ login = [posts |-> 0, reply |-> PyNone]
    /\ tasks = <<>>
    /\ semaphore = NoSemaphore
    /\ returned = PyNone

NextRun ==
    \/ Enter
    \/ AuthenticateReply
    \/ AuthenticateRaises
    \/ RunEndpointTests
    \/ LimitedRequest
    \/ Resume
    \/ Response
    \/ RequestRaises
    \/ GatherReturn

SpecRun == InitRun /\ [][NextRun]_vars

(***************************************************************************)
(* SpecDispatch: run_endpoint_tests on a runner that was entered and got   *)
(* its token, under the scheduling of the event loop.  A coroutine that    *)
(* can run is run: the loop calls every ready callback in turn             *)
(* (RunEndpointTests, LimitedRequest, Resume, GatherReturn).  Every        *)
(* request ends, with a reply or with an exception, within the             *)
(* ClientTimeout(total=30) of the session (lines 1074-1075).               *)
(***************************************************************************)
InitDispatch ==
    /\ CmdIdle
    /\ ParseIdle
    /\ dir = NoFunction
    /\ ScanIdle
    /\ CleanIdle
    /\ rpc = "entered"
    /\ campaign \in Campaigns
    /\ runner = [NewRunner EXCEPT !.session = TRUE, !.auth_token = PyStr(Jwt)]
    /\ login = [posts |-> 1,
                reply |-> [raised |-> FALSE, status |-> 200, body |-> Json(PyStr(Jwt))]]
    /\ tasks = <<>>
    /\ semaphore = NoSemaphore
    /\ returned = PyNone

NextDispatch ==
    \/ RunEndpointTests
    \/ LimitedRequest
    \/ Resume
    \/ Response
    \/ RequestRaises
    \/ GatherReturn

FairDispatch ==
    /\ WF_vars(RunEndpointTests)
    /\ WF_vars(LimitedRequest)
    /\ WF_vars(Resume)
    /\ WF_vars(Response \/ RequestRaises)
    /\ WF_vars(GatherReturn)

SpecDispatch == InitDispatch /\ [][NextDispatch]_vars /\ FairDispatch

(***************************************************************************)
(* SpecOrder: run_endpoint_tests over two endpoints with repeats, the      *)
(* order in which the requests end being recorded                          *)
(***************************************************************************)
\* one or two endpoints, of at most MaxTasks + 1 tasks: two requests for
\* each of two endpoints are among them
OrderCampaigns ==
    {c \in [endpoints : [1..1 -> EndpointPool] \cup [1..2 -> EndpointPool],
            concurrent : 1..MaxConcurrent,
            requests_per_endpoint : 1..(MaxTasks + 1), ranked : {TRUE}] :
        Len(c.endpoints) * c.requests_per_endpoint <= MaxTasks + 1}

InitOrder ==
    /\ CmdIdle
    /\ ParseIdle
    /\ dir = NoFunction
    /\ ScanIdle
    /\ CleanIdle
    /\ rpc = "entered"
    /\ campaign \in OrderCampaigns
    /\ runner = [NewRunner EXCEPT !.session = TRUE, !.auth_token = PyStr(Jwt)]
    /\ login = [posts |-> 1,
                reply |-> [raised |-> FALSE, status |-> 200, body |-> Json(PyStr(Jwt))]]
    /\ tasks = <<>>
    /\ semaphore = NoSemaphore
    /\ returned = PyNone

SpecOrder == InitOrder /\ [][NextDispatch]_vars

(***************************************************************************)
(* Command.handle with action generate (lines 75-98 and 144-197)           *)
(***************************************************************************)
\* an invocation that starts now: status is running, ok (handle returned),
\* warning (KeyboardInterrupt, line 96) or error (CommandError, line 98);
\* out is what it printed or produced
Invocation(action, status, out) ==
    [action |-> action, status |-> status,
     before |-> [dir |-> dir, disk |-> disk], out |-> out]

\* a file left empty, which is no JSON document
EmptyFile == [json |-> FALSE]

\* the config create_default_config writes (lines 396-412)
DefaultConfig ==
    [json |-> TRUE,
     auth |-> [login_endpoint |-> <<"/","a","p","i","/","a","u","t","h","/","j","w","t","/","c","r","e","a","t","e","/">>,
               email_field |-> <<"e","m","a","i","l">>,
               password_field |-> <<"p","a","s","s","w","o","r","d">>],
     endpoint_groups |->
        <<[name |-> "auth",
           endpoints |->
              <<[endpoint |-> <<"/","a","p","i","/","a","u","t","h","/","u","s","e","r","s","/">>,
                 method |-> "GET", auth |-> TRUE],
                [endpoint |-> <<"/","a","p","i","/","a","u","t","h","/","u","s","e","r","s","/","m","e","/">>,
                 method |-> "GET", auth |-> TRUE]>>],
          [name |-> "admin",
           endpoints |->
              <<[endpoint |-> <<"/","a","d","m","i","n","/">>,
                 method |-> "GET", auth |-> FALSE],
                [endpoint |-> <<"/","a","p","i","/","s","c","h","e","m","a","/">>,
                 method |-> "GET", auth |-> FALSE]>>]>>]

\* a config file of the operator: two groups, one endpoint disabled
OperatorConfig ==
    [json |-> TRUE,
     endpoint_groups |->
        <<[name |-> "a",
           endpoints |-> <<[endpoint |-> <<"/","h">>, auth |-> FALSE]>>],
          [name |-> "b",
           endpoints |->
              <<[endpoint |-> <<"/","m","e","?","x">>, auth |-> TRUE],
                [endpoint |-> <<"/","o","f","f">>, auth |-> FALSE,
                 enabled |-> FALSE]>>]>>]
\* a file that json.load does not accept
BrokenConfig == [json |-> FALSE]
ConfigFiles == {PyNone, OperatorConfig, BrokenConfig}

\* ep.get('enabled', True)
Enabled(ep) == IF "enabled" \in DOMAIN ep THEN ep.enabled ELSE TRUE

\* the endpoints of a group that are tested (lines 173-177, 181-185)
GroupEndpoints(group, include_disabled) ==
    IF include_disabled THEN group.endpoints
    ELSE SelectSeq(group.endpoints, Enabled)

RECURSIVE AllGroups(_, _)
\* lines 179-185: the groups of the config in their order
AllGroups(groups, include_disabled) ==
    IF groups = <<>> THEN <<>>
    ELSE GroupEndpoints(Head(groups), include_disabled)
            \o AllGroups(Tail(groups), include_disabled)

\* config['endpoint_groups'][name], or no endpoints for an unknown name
GroupNamed(groups, name, include_disabled) ==
    AllGroups(SelectSeq(groups, LAMBDA g : g.name = name), include_disabled)

RECURSIVE NamedGroups(_, _, _)
\* lines 167-177: the groups that --endpoints names, in its order
NamedGroups(groups, names, include_disabled) ==
    IF names = <<>> THEN <<>>
    ELSE GroupNamed(groups, Head(names), include_disabled)
            \o NamedGroups(groups, Tail(names), include_disabled)

\* the endpoints handle_generate hands to run_endpoint_tests
SelectEndpoints(config, endpoints_option, include_disabled) ==
    IF Truthy(endpoints_option)
    THEN NamedGroups(config.endpoint_groups, endpoints_option.v, include_disabled)
    ELSE AllGroups(config.endpoint_groups, include_disabled)

\* options['endpoints'] after split(','): no option, and lists of names
EndpointsOptions ==
    {PyNone, PyList(<<"a">>), PyList(<<"b">>), PyList(<<"b", "a">>),
     PyList(<<"z">>)}

\* handle_generate up to `async with runner` (lines 144-189): a missing
\* config file is created and the command returns; a config that does not
\* load is a CommandError; else the runner is made for the chosen endpoints
GenerateStart ==
    /\ cmd = PyNone
    /\ IF disk.config = PyNone
       THEN /\ disk' = [disk EXCEPT !.config = DefaultConfig]
            /\ cmd' = Invocation("generate", "ok", PyNone)
            /\ UNCHANGED runVars
       ELSE IF ~disk.config.json
       THEN /\ cmd' = Invocation("generate", "error", PyNone)
            /\ UNCHANGED <<disk, runVars>>
       ELSE /\ \E endpoints_option \in EndpointsOptions,
                  include_disabled \in BOOLEAN,
                  concurrent \in 1..MaxConcurrent,
                  requests \in 0..MaxTasks :
                 /\ campaign' =
                       [endpoints |-> SelectEndpoints(disk.config, endpoints_option,
                                                      include_disabled),
                        concurrent |-> concurrent,
                        requests_per_endpoint |-> requests,
                        ranked |-> FALSE]
                 /\ Len(campaign'.endpoints) * requests <= MaxTasks
            /\ runner' = NewRunner
            /\ login' = [posts |-> 0, reply |-> PyNone]
            /\ rpc' = "idle"
            /\ cmd' = Invocation("generate", "running", PyNone)
            /\ UNCHANGED <<disk, tasks, semaphore, returned>>
    /\ UNCHANGED <<parseVars, dir, scanVars, cleanVars>>

\* KeyboardInterrupt while gather is awaited (line 1193): asyncio.run
\* cancels the tasks that have not ended, run_endpoint_tests is left at
\* the await, __aexit__ closes the session (lines 1081-1084) and handle
\* writes the warning (lines 95-96)
Interrupt ==
    /\ rpc = "gathering"
    /\ cmd # PyNone
    /\ tasks' = [i \in DOMAIN tasks |->
                    IF tasks[i].st = "done" THEN tasks[i]
                    ELSE [tasks[i] EXCEPT !.st = "cancelled", !.permit = FALSE]]
    /\ semaphore' = [value |-> campaign.concurrent, waiters |-> <<>>]
    /\ runner' = [runner EXCEPT !.session = FALSE]
    /\ rpc' = "interrupted"
    /\ cmd' = [cmd EXCEPT !.status = "warning"]
    /\ UNCHANGED <<parseVars, dir, scanVars, cleanVars, disk, campaign, login,
                   returned>>

\* the end of handle_generate (lines 189-197): __aexit__, print_summary
\* of runner.results and the success line
GenerateFinish ==
    /\ rpc = "returned"
    /\ cmd # PyNone
    /\ runner' = [runner EXCEPT !.session = FALSE]
    /\ rpc' = "finished"
    /\ cmd' = [cmd EXCEPT !.status = "ok", !.out = PyList(runner.results)]
    /\ UNCHANGED <<parseVars, dir, scanVars, cleanVars, disk, campaign, login,
                   tasks, semaphore, returned>>

(***************************************************************************)
(* SpecGenerate: one invocation of generate, with or without a config      *)
(* file, that the operator may interrupt                                   *)
(***************************************************************************)
InitGenerate ==
    /\ ParseIdle
    /\ dir = NoFunction
    /\ ScanIdle
    /\ CleanIdle
    /\ RunIdle
    /\ cmd = PyNone
    /\ disk \in [profiles : {TRUE}, config : ConfigFiles, output : {PyNone}]

NextGenerate ==
    \/ GenerateStart
    \/ NextRun
    \/ Interrupt
    \/ GenerateFinish

SpecGenerate == InitGenerate /\ [][NextGenerate]_vars

(***************************************************************************)
(* Command.handle_analyze, handle_serve and handle_dashboard, each as one  *)
(* invocation over the trace directory                                     *)
(***************************************************************************)
\* get_profiles_dir (lines 388-392): mkdir(exist_ok=True) makes the
\* directory when it is missing
get_profiles_dir == [disk EXCEPT !.profiles = TRUE]

\* ProfileAnalyzer.__init__ before _analyze_profiles (lines 1274-1286)
NewAnalyzer(order) ==
    [profile_files |-> order,
     analyzed_profiles |-> <<>>,
     app_groups |-> NoFunction,
     stats |-> [total_files |-> Len(order), total_size |-> 0,
                avg_duration |-> PyInt(0), fastest |-> PyNone,
                slowest |-> PyNone, apps |-> NoFunction]]

\* the locals of _analyze_profiles after the iteration for this analysis
\* (lines 1302-1304)
LoopAfter(l, analysis) ==
    IF Truthy(analysis.duration)
    THEN [i |-> l.i + 1,
          total_duration |-> AddF(l.total_duration, analysis.duration),
          durations |-> Append(l.durations, analysis.duration)]
    ELSE [l EXCEPT !.i = @ + 1]

\* the one element of a singleton
Only(S) == CHOOSE x \in S : TRUE

\* _analyze_profiles from the loop state l on (lines 1294-1312): the
\* analyzer at its end, PyNone when _parse_filename raises
RECURSIVE AnalyzeFrom(_, _, _)
AnalyzeRest(a, l, d, analysis) ==
    IF analysis.raised THEN PyNone
    ELSE Only({AnalyzeFrom(folded, after, d) :
                 folded \in {Fold(a, analysis)}, after \in {LoopAfter(l, analysis)}})

AnalyzeFrom(a, l, d) ==
    IF l.i = Len(a.profile_files)
    THEN (IF l.durations # <<>>
          THEN [a EXCEPT !.stats.avg_duration =
                            DivF(l.total_duration, Len(l.durations))]
          ELSE a)
    ELSE Only({AnalyzeRest(a, l, d, analysis) :
                 analysis \in {_parse_filename(a.profile_files[l.i + 1],
                                               Stat(d, a.profile_files[l.i + 1]))}})

\* ProfileAnalyzer(profiles_dir) when the glob lists the files in this order
ProfileAnalyzer(d, order) == AnalyzeFrom(NewAnalyzer(order), NoLoop, d)

\* profiles_dir / 'profiling_dashboard.html' (line 317)
DashboardName ==
    <<"p","r","o","f","i","l","i","n","g","_","d","a","s","h","b","o","a","r","d">> \o HtmlExt

\* the --output options of the model: none, or a path outside the trace directory
Outputs == {PyNone, PyStr(<<"o","u","t",".","h","t","m","l">>)}

\* the sizes the written dashboard may have
DashboardSizes == {512, 1024}

\* handle_analyze (lines 341-349)
HandleAnalyze ==
    LET made == get_profiles_dir
    IN /\ disk' = made
       /\ IF ~made.profiles
          THEN cmd' = Invocation("analyze", "error", PyNone)
          ELSE \E order \in Orders(Glob(dir)) :
                 \E a \in {ProfileAnalyzer(dir, order)} :
                    cmd' = IF a = PyNone THEN Invocation("analyze", "error", PyNone)
                           ELSE Invocation("analyze", "ok", PyList(a.analyzed_profiles))
       /\ UNCHANGED <<parseVars, dir, apc, analyzer, aloop, firstCall, lastCall,
                      cleanVars, runVars>>

\* the --limit options of the model
LimitOptions == {<<"n","o","n","e">>, <<"0">>, <<"1">>, <<"-","1">>}

\* int(s) of an optional sign and digits
IntLiteral(s) == IF Head(s) = "-" THEN 0 - IntOf(Tail(s)) ELSE IntOf(s)

\* None if options['limit'].lower() in ['none', '0'] else
\* int(options['limit']) (lines 268 and 348)
ParseLimit(s) ==
    IF Lower(s) \in {<<"n","o","n","e">>, <<"0">>} THEN PyNone
    ELSE PyInt(IntLiteral(s))

\* the limit used when none is given (line 427)
DefaultLimit == 20

\* the profiles start_profile_server lists: limit or 20 (line 427)
Listed(analyzed_profiles, app_filter, limit, sort_by) ==
    get_filtered_profiles(analyzed_profiles, app_filter,
                          IF Truthy(limit) THEN limit ELSE PyInt(DefaultLimit), sort_by)

\* handle_serve (lines 256-282) up to the running server, which lists
\* get_filtered_profiles(app_filter, limit or 20, sort_by) (line 427)
HandleServe ==
    LET made == get_profiles_dir
    IN /\ disk' = made
       /\ IF ~made.profiles \/ Glob(dir) = {}
          THEN cmd' = Invocation("serve", "error", PyNone)
          ELSE \E order \in Orders(Glob(dir)) :
                 \E a \in {ProfileAnalyzer(dir, order)}, sort_by \in SortKeys,
                    limit_option \in LimitOptions :
                    cmd' = IF a = PyNone THEN Invocation("serve", "error", PyNone)
                           ELSE Invocation("serve", "serving",
                                    [limit |-> limit_option,
                                     listed |-> Listed(a.analyzed_profiles, PyNone,
                                                       ParseLimit(limit_option), sort_by)])
       /\ UNCHANGED <<parseVars, dir, apc, analyzer, aloop, firstCall, lastCall,
                      cleanVars, runVars>>

\* handle_dashboard (lines 284-339)
HandleDashboard ==
    LET made == get_profiles_dir
    IN /\ IF ~made.profiles
          THEN /\ cmd' = Invocation("dashboard", "error", PyNone)
               /\ disk' = made
               /\ UNCHANGED dir
          ELSE IF Glob(dir) = {}
          THEN /\ cmd' = Invocation("dashboard", "ok", PyNone)
               /\ disk' = made
               /\ UNCHANGED dir
          ELSE \E order \in Orders(Glob(dir)) :
                 \E a \in {ProfileAnalyzer(dir, order)}, output \in Outputs,
                    written \in {[mtime |-> Now0, size |-> size] : size \in DashboardSizes} :
                    IF a = PyNone
                    THEN /\ cmd' = Invocation("dashboard", "error", PyNone)
                         /\ disk' = made
                         /\ UNCHANGED dir
                    ELSE /\ cmd' = Invocation("dashboard", "ok",
                                              PyList(a.analyzed_profiles))
                         /\ IF Truthy(output)
                            THEN /\ disk' = [made EXCEPT !.output = written]
                                 /\ UNCHANGED dir
                            ELSE /\ disk' = made
                                 /\ dir' = [n \in DOMAIN dir \cup {DashboardName} |->
                                              IF n = DashboardName THEN written
                                              ELSE dir[n]]
       /\ UNCHANGED <<parseVars, apc, analyzer, aloop, firstCall, lastCall,
                      cleanVars, runVars>>

(***************************************************************************)
(* SpecCommand: analyze, serve and dashboard invoked in any order on a     *)
(* trace directory that exists or not, with no other writer                *)
(***************************************************************************)
InitCommand ==
    /\ ParseIdle
    /\ ScanIdle
    /\ CleanIdle
    /\ RunIdle
    /\ cmd = PyNone
    /\ \E exists \in BOOLEAN :
         /\ disk = [profiles |-> exists, config |-> PyNone, output |-> PyNone]
         /\ dir \in IF exists THEN Dirs({File2, File3}) ELSE Dirs({})

NextCommand == HandleAnalyze \/ HandleServe \/ HandleDashboard

SpecCommand == InitCommand /\ [][NextCommand]_vars

(***************************************************************************)
(* handle_dashboard in the steps an interrupt can fall between             *)
(***************************************************************************)
\* the file open(output_path, 'w') leaves before anything is written
EmptyDocument == [mtime |-> Now0, size |-> 0]

\* a dashboard written by an earlier invocation
OldDocument == [mtime |-> Now0 - SecondsPerDay, size |-> 1024]

\* handle_dashboard up to open(output_path, 'w') (lines 284-323): the scan
\* is done and the document generated; the output file is created, or
\* emptied when it exists
DashboardOpen ==
    /\ cmd = PyNone
    /\ disk.profiles
    /\ Glob(dir) # {}
    /\ \E order \in Orders(Glob(dir)) :
         \E a \in {ProfileAnalyzer(dir, order)}, output \in Outputs,
            document \in {[mtime |-> Now0, size |-> size] : size \in DashboardSizes} :
            /\ a # PyNone
            /\ cmd' = Invocation("dashboard", "writing",
                                 [output |-> output, document |-> document])
            /\ IF Truthy(output)
               THEN /\ disk' = [disk EXCEPT !.output = EmptyDocument]
                    /\ UNCHANGED dir
               ELSE /\ dir' = [n \in DOMAIN dir \cup {DashboardName} |->
                                 IF n = DashboardName THEN EmptyDocument ELSE dir[n]]
                    /\ UNCHANGED disk
    /\ UNCHANGED <<parseVars, scanVars, cleanVars, runVars>>

\* f.write(html_content) and the close of the file (line 324)
DashboardWrite ==
    /\ cmd # PyNone
    /\ cmd.action = "dashboard"
    /\ cmd.status = "writing"
    /\ IF Truthy(cmd.out.output)
       THEN /\ disk' = [disk EXCEPT !.output = cmd.out.document]
            /\ UNCHANGED dir
       ELSE /\ dir' = [dir EXCEPT ![DashboardName] = cmd.out.document]
            /\ UNCHANGED disk
    /\ cmd' = [cmd EXCEPT !.status = "ok"]
    /\ UNCHANGED <<parseVars, scanVars, cleanVars, runVars>>

\* KeyboardInterrupt between the open and the write: the with statement
\* closes the empty file and handle writes the warning (lines 95-96)
DashboardInterrupt ==
    /\ cmd # PyNone
    /\ cmd.action = "dashboard"
    /\ cmd.status = "writing"
    /\ cmd' = [cmd EXCEPT !.status = "warning"]
    /\ UNCHANGED <<parseVars, dir, scanVars, cleanVars, runVars, disk>>

(***************************************************************************)
(* SpecInterrupt: one invocation of generate or of dashboard that the      *)
(* operator may interrupt                                                  *)
(***************************************************************************)
InitInterrupt ==
    /\ ParseIdle
    /\ ScanIdle
    /\ CleanIdle
    /\ RunIdle
    /\ cmd = PyNone
    /\ dir \in Dirs({File2, File3})
    /\ disk \in [profiles : {TRUE}, config : {OperatorConfig},
                 output : {PyNone, OldDocument}]

NextInterrupt ==
    \/ NextGenerate
    \/ DashboardOpen
    \/ DashboardWrite
    \/ DashboardInterrupt

SpecInterrupt == InitInterrupt /\ [][NextInterrupt]_vars

(***************************************************************************)
(* ProfileRunner.print_summary (lines 1208-1268) over a list of outcomes   *)
(***************************************************************************)

\* a result dict with its 'duration' entry (lines 1147 and 1164), the
\* measured time in milliseconds
Timed(result, duration) ==
    [endpoint |-> result.endpoint, status |-> result.status,
     success |-> result.success, error |-> result.error,
     auth_used |-> result.auth_used, duration |-> duration]

Durations == {5, 9}
TimedOutcomes ==
    {Timed(ResponseResult(ec, status), d) :
        ec \in EndpointPool, status \in {200, 400}, d \in Durations}
    \cup {Timed(ExceptionResult(ec, <<"r","e","f","u","s","e","d">>), d) :
            ec \in EndpointPool, d \in Durations}
OutcomeLists == UNION {[1..n -> TimedOutcomes] : n \in 0..MaxTasks}

\* the characters of the endpoints in code point order, as str comparison
\* of sorted() orders them
CodePoints ==
    <<"&", "/", "1", "=", "?", "e", "f", "h", "i", "l", "m", "o", "p", "r", "x">>
Ord(c) == CHOOSE i \in DOMAIN CodePoints : CodePoints[i] = c

\* a < b for two str
RECURSIVE StrLess(_, _)
StrLess(a, b) ==
    IF b = <<>> THEN FALSE
    ELSE IF a = <<>> THEN TRUE
    ELSE IF Head(a) = Head(b) THEN StrLess(Tail(a), Tail(b))
    ELSE Ord(Head(a)) < Ord(Head(b))

\* sorted(...) of a set of distinct str
RECURSIVE SortedStr(_)
SortedStr(S) ==
    IF S = {} THEN <<>>
    ELSE LET least == CHOOSE x \in S : \A y \in S \ {x} : StrLess(x, y)
         IN <<least>> \o SortedStr(S \ {least})

\* float('inf') of line 1226, and a finite float as [inf |-> FALSE, v |-> d]
Inf == [inf |-> TRUE, v |-> 0]

\* the duration of the latest result, whatever came before
LastDuration(m, d) == [inf |-> FALSE, v |-> d]

\* min(stats['min_duration'], result['duration']) (line 1234)
MinDuration(m, d) ==
    [inf |-> FALSE, v |-> IF m.inf THEN d ELSE Min(m.v, d)]

\* the entry created for an endpoint met for the first time (lines 1222-1229)
NewStats ==
    [total_requests |-> 0, successful_requests |-> 0, min_duration |-> Inf,
     max_duration |-> 0, errors |-> <<>>]

\* the loop of lines 1219-1240 from the stats collected so far
RECURSIVE EndpointStats(_, _)
EndpointStats(results, endpoint_stats) ==
    IF results = <<>> THEN endpoint_stats
    ELSE LET result == Head(results)
             stats == GetOr(endpoint_stats, result.endpoint, NewStats)
         IN EndpointStats(Tail(results),
                Put(endpoint_stats, result.endpoint,
                    [total_requests |-> stats.total_requests + 1,
                     successful_requests |->
                        stats.successful_requests
                            + (IF result.success THEN 1 ELSE 0),
                     min_duration |-> MinDuration(stats.min_duration, result.duration),
                     max_duration |-> Max(stats.max_duration, result.duration),
                     errors |->
                        IF result.success THEN stats.errors
                        ELSE Append(stats.errors, result.error)]))

\* what print_summary prints: nothing but a notice for no results (lines
\* 1210-1212), else one group per endpoint in sorted order (lines 1242-1255)
\* and the overall counts (lines 1257-1265); the averages, which are sums of
\* floats, are left out
print_summary(results) ==
    IF results = <<>> THEN [endpoints |-> <<>>, overall |-> PyNone]
    ELSE LET endpoint_stats == EndpointStats(results, NoFunction)
             order == SortedStr(DOMAIN endpoint_stats)
             successful_requests ==
                Cardinality({i \in DOMAIN results : results[i].success})
         IN [endpoints |->
                [k \in DOMAIN order |->
                    LET stats == endpoint_stats[order[k]]
                    IN [endpoint |-> order[k],
                        auth_used |->
                            \E i \in DOMAIN results :
                                /\ results[i].endpoint = order[k]
                                /\ results[i].auth_used,
                        requests |-> stats.total_requests,
                        successful |-> stats.successful_requests,
                        min_duration |-> stats.min_duration,
                        max_duration |-> stats.max_duration,
                        errors |-> Len(stats.errors)]],
             overall |->
                [total_requests |-> Len(results),
                 successful |-> successful_requests,
                 failed |-> Len(results) - successful_requests]]

\* print_summary called on a runner that holds results
PrintSummary ==
    /\ cmd = PyNone
    /\ runner # PyNone
    /\ \E printed \in {print_summary(runner.results)} :
         cmd' = Invocation("summary", "ok",
                           [given |-> runner.results, printed |-> printed])
    /\ UNCHANGED <<parseVars, dir, scanVars, cleanVars, runVars, disk>>

InitSummary ==
    /\ CmdIdle
    /\ ParseIdle
    /\ dir = NoFunction
    /\ ScanIdle
    /\ CleanIdle
    /\ rpc = "returned"
    /\ campaign = PyNone
    /\ \E results \in OutcomeLists :
         runner = [NewRunner EXCEPT !.results = results]
    /\ login = PyNone
    /\ tasks = <<>>
    /\ semaphore = NoSemaphore
    /\ returned = PyNone

NextSummary == PrintSummary

SpecSummary == InitSummary /\ [][NextSummary]_vars

(***************************************************************************)
(* C5: for every filename, _parse_filename of a listed file does not raise *)
(* and returns a record whose endpoint, app, timestamp and size are not    *)
(* None (only duration may be None).                                       *)
(***************************************************************************)
C5_ParseTotal ==
    parsed # PyNone =>
        /\ ~parsed.raised
        /\ parsed.endpoint.t = "str"
        /\ parsed.app.t = "str"
        /\ parsed.timestamp.t = "int"
        /\ parsed.size.t = "int"

\* a filename that matches no pattern and whose timestamp token is not an
\* integer has been parsed into a record without a duration
C5_Witness ==
    /\ parsed # PyNone
    /\ ~parsed.raised
    /\ FirstMatch(pfile.name) = 0
    /\ ParseLocals(pfile.name).timestamp.t = "str"
    /\ ~IsDigits(ParseLocals(pfile.name).timestamp.v)
    /\ IsNone(parsed.duration)
    /\ parsed.timestamp = PyInt(0)

(***************************************************************************)
(* C6: once a ProfileAnalyzer is constructed, stats.total_files is the     *)
(* number of analyzed records, stats.total_size the sum of their sizes,    *)
(* stats.apps[a] the number of records of app a, which is the length of    *)
(* app_groups[a], and every record is in exactly one app group.            *)
(***************************************************************************)
RECURSIVE SumSizes(_)
SumSizes(records) ==
    IF records = <<>> THEN 0 ELSE records[1].size.v + SumSizes(Tail(records))

Range(s) == {s[i] : i \in DOMAIN s}
AppsOf(records) == {records[i].app.v : i \in DOMAIN records}
CountApp(records, a) == Cardinality({i \in DOMAIN records : records[i].app.v = a})

C6_AggregateConsistent ==
    apc = "ready" =>
        LET records == analyzer.analyzed_profiles
            stats == analyzer.stats
            groups == analyzer.app_groups
        IN /\ Len(records) = Cardinality(Glob(dir))
           /\ stats.total_files = Len(records)
           /\ stats.total_size = SumSizes(records)
           /\ DOMAIN stats.apps = AppsOf(records)
           /\ DOMAIN groups = AppsOf(records)
           /\ \A a \in AppsOf(records) :
                /\ stats.apps[a] = CountApp(records, a)
                /\ Len(groups[a]) = CountApp(records, a)
           /\ \A i \in DOMAIN records :
                \A a \in DOMAIN groups :
                    Cardinality({k \in DOMAIN groups[a] : groups[a][k] = records[i]})
                        = (IF a = records[i].app.v THEN 1 ELSE 0)

\* an analyzer over a directory of two trace files of different apps, one
\* of them without a duration, and a file that is no trace file
C6_Witness ==
    /\ apc = "ready"
    /\ Len(analyzer.analyzed_profiles) = 2
    /\ Cardinality(AppsOf(analyzer.analyzed_profiles)) = 2
    /\ \E i \in DOMAIN analyzer.analyzed_profiles :
          IsNone(analyzer.analyzed_profiles[i].duration)
    /\ analyzer.stats.total_size > 0
    /\ Cardinality(DOMAIN dir) > Len(analyzer.analyzed_profiles)

(***************************************************************************)
(* C7: two calls of get_filtered_profiles with the same arguments return   *)
(* the same sequence; a call with limit = k returns the first min(k, n)    *)
(* elements of the call with limit = None and the same filter and key.     *)
(* The code does so for k >= 1; with k = 0 it returns the whole result.    *)
(***************************************************************************)
SameQuery(c, u) == c.app_filter = u.app_filter /\ c.sort_by = u.sort_by

\* c is the call with limit k of the unlimited call u
LimitedOf(c, u) ==
    /\ c # PyNone /\ u # PyNone
    /\ SameQuery(c, u)
    /\ u.limit = PyNone
    /\ c.limit # PyNone

PrefixOf(c, u) == c.result = SubSeq(u.result, 1, Min(c.limit.v, Len(u.result)))

SameCallSameResult ==
    (firstCall # PyNone /\ SameQuery(firstCall, lastCall)
        /\ firstCall.limit = lastCall.limit)
    => firstCall.result = lastCall.result

\* the claim as stated: for every k >= 0
C7_LimitIsPrefix_Original ==
    /\ SameCallSameResult
    /\ LimitedOf(lastCall, firstCall) => PrefixOf(lastCall, firstCall)
    /\ LimitedOf(firstCall, lastCall) => PrefixOf(firstCall, lastCall)

\* the claim for k >= 1, and the whole result for k = 0
C7_LimitIsPrefix ==
    /\ SameCallSameResult
    /\ LimitedOf(lastCall, firstCall) =>
          IF lastCall.limit.v >= 1 THEN PrefixOf(lastCall, firstCall)
          ELSE lastCall.result = firstCall.result
    /\ LimitedOf(firstCall, lastCall) =>
          IF firstCall.limit.v >= 1 THEN PrefixOf(firstCall, lastCall)
          ELSE firstCall.result = lastCall.result

\* an unlimited call that returned three records, two of them with equal
\* keys, followed by the same call with limit 2
C7_Witness ==
    /\ LimitedOf(lastCall, firstCall)
    /\ Len(firstCall.result) = 3
    /\ lastCall.limit = PyInt(2)
    /\ Len(lastCall.result) = 2
    /\ SortKey(firstCall.result[1], firstCall.sort_by)
          = SortKey(firstCall.result[2], firstCall.sort_by)
    /\ firstCall.result # analyzer.analyzed_profiles

(***************************************************************************)
(* C8: a clean with dry_run never changes the files of the directory, and  *)
(* the candidates it reports are exactly the files a clean without dry_run *)
(* with the same days and clock deletes on the same directory.             *)
(***************************************************************************)
C8_DryRunIsPreview ==
    /\ (clean # PyNone /\ clean.dry_run) => (cpc = "done" /\ dir = clean.before)
    /\ (prevClean # PyNone /\ prevClean.dry_run /\ ~clean.dry_run
          /\ clean.days = prevClean.days /\ clean.now = prevClean.now) =>
          /\ clean.before = prevClean.before
          /\ Range(clean.files_to_delete) = Range(prevClean.reported)
          /\ Range(clean.deleted) \subseteq Range(prevClean.reported)
          /\ cpc = "done" =>
                /\ Range(clean.deleted) = Range(prevClean.reported)
                /\ DOMAIN clean.before \ DOMAIN dir = Range(prevClean.reported)

\* a dry run that reported two files, then the same clean without dry_run
\* that deleted two files and left another
C8_Witness ==
    /\ prevClean # PyNone /\ prevClean.dry_run /\ ~clean.dry_run
    /\ clean.days = prevClean.days /\ clean.now = prevClean.now
    /\ cpc = "done"
    /\ Len(prevClean.reported) = 2
    /\ Len(clean.deleted) = 2
    /\ Glob(dir) # {}

(***************************************************************************)
(* C9: after a clean without dry_run that ended without an error, the      *)
(* trace files left are exactly those whose modification time is not       *)
(* below now - days * 24h; a file that is no trace file is never deleted.  *)
(***************************************************************************)
C9_CleanKeepsRecent ==
    (clean # PyNone) =>
        /\ \A n \in DOMAIN clean.before \ Glob(clean.before) :
              n \in DOMAIN dir /\ dir[n] = clean.before[n]
        /\ (cpc = "done" /\ ~clean.dry_run) =>
              /\ Glob(dir) = {n \in Glob(clean.before) :
                                clean.before[n].mtime >= Cutoff(clean.now, clean.days)}
              /\ \A n \in Glob(dir) : dir[n] = clean.before[n]

\* days = 7: a file of ten days was deleted, a file whose modification
\* time is the cutoff itself and a file that is no trace file were kept
C9_Witness ==
    /\ clean # PyNone /\ ~clean.dry_run /\ cpc = "done"
    /\ clean.days = 7
    /\ Len(clean.deleted) = 1
    /\ \E n \in Glob(dir) : dir[n].mtime = Cutoff(clean.now, clean.days)
    /\ \E n \in DOMAIN dir \ Glob(dir) : dir[n].mtime < Cutoff(clean.now, clean.days)

(***************************************************************************)
(* C1: while run_endpoint_tests dispatches with concurrent = c >= 1, at    *)
(* most c requests are sent and not yet ended; a task sends its request    *)
(* only while it holds a permit of the semaphore, and it gives the permit  *)
(* back when its request ends, by a response or by an exception.           *)
(***************************************************************************)
C1_BoundedInFlight ==
    rpc \in {"gathering", "returned"} =>
        /\ campaign.concurrent >= 1
        /\ Cardinality(InFlight) <= campaign.concurrent
        /\ Cardinality(Holding) + semaphore.value = campaign.concurrent
        /\ \A i \in DOMAIN tasks :
              /\ tasks[i].st = "inflight" => tasks[i].permit
              /\ tasks[i].st \in {"created", "waiting"} =>
                    ~tasks[i].permit /\ tasks[i].request = PyNone
              /\ tasks[i].st = "done" => ~tasks[i].permit

\* concurrent requests at the limit, a task waiting for a permit, and a
\* task whose request raised and that gave its permit back
C1_Witness ==
    /\ rpc = "gathering"
    /\ Cardinality(InFlight) = campaign.concurrent
    /\ \E i \in DOMAIN tasks : tasks[i].st = "waiting"
    /\ \E i \in DOMAIN tasks :
          tasks[i].st = "done" /\ tasks[i].raised /\ ~tasks[i].permit

(***************************************************************************)
(* C2: run_endpoint_tests creates len(endpoints) * requests_per_endpoint   *)
(* tasks, requests_per_endpoint for every entry of the endpoint list, and  *)
(* returns, only when every task has ended, the result of every task once. *)
(***************************************************************************)
TasksOf(endpoint_config) ==
    Cardinality({k \in DOMAIN tasks : tasks[k].endpoint_config = endpoint_config})
EntriesOf(endpoint_config) ==
    Cardinality({k \in DOMAIN campaign.endpoints :
                    campaign.endpoints[k] = endpoint_config})

C2_OneOutcomePerTask ==
    /\ rpc # "returned" => returned = PyNone
    /\ rpc \in {"gathering", "returned"} =>
          /\ Len(tasks) = Len(campaign.endpoints) * campaign.requests_per_endpoint
          /\ \A endpoint_config \in EndpointPool :
                TasksOf(endpoint_config)
                   = EntriesOf(endpoint_config) * campaign.requests_per_endpoint
    /\ rpc = "returned" =>
          /\ Len(returned.v) = Len(tasks)
          /\ \A i \in DOMAIN tasks :
                /\ tasks[i].st = "done"
                /\ tasks[i].result # PyNone
                /\ returned.v[i] = tasks[i].result

\* one endpoint, three requests each: three results returned, not all of
\* them the same
C2_Witness ==
    /\ rpc = "returned"
    /\ Len(campaign.endpoints) = 1
    /\ campaign.requests_per_endpoint = 3
    /\ Len(returned.v) = 3
    /\ returned.v[1] # returned.v[3]

(***************************************************************************)
(* C3: every result of make_request has success = (200 <= status < 400     *)
(* and error is None); the result of a request that raised has success     *)
(* False, status 0 and an error that is not None.                          *)
(***************************************************************************)
Outcomes == {i \in DOMAIN tasks : tasks[i].result # PyNone}

C3_SuccessInvariant ==
    \A i \in Outcomes :
        LET o == tasks[i].result
        IN  /\ o.success
                 = (200 <= o.status /\ o.status < 400 /\ o.error = PyNone)
            /\ tasks[i].raised =>
                  ~o.success /\ o.status = 0 /\ o.error # PyNone

\* results for the statuses 200, 399 and 400 or 199, and the result of a
\* request that timed out, whose error is the empty text
C3_Witness ==
    /\ \E i \in Outcomes : tasks[i].result.status = 399 /\ tasks[i].result.success
    /\ \E i \in Outcomes :
          tasks[i].result.status \in {199, 400} /\ ~tasks[i].result.success
    /\ \E i \in Outcomes : tasks[i].raised /\ tasks[i].result.error = PyStr(<<>>)

(***************************************************************************)
(* C4: a request that raises, by a connection error or a timeout, ends as  *)
(* a failed result and the exception never leaves run_endpoint_tests:      *)
(* whichever tasks fail, the dispatch is never stuck, it returns one       *)
(* result for every task, and the other tasks have sent their requests     *)
(* and were answered.                                                      *)
(***************************************************************************)
Failed == {i \in DOMAIN tasks : tasks[i].raised}

C4_FailureIsAnOutcome ==
    /\ rpc # "raised"
    /\ rpc = "gathering" => ENABLED NextRun
    /\ \A i \in Failed :
          /\ tasks[i].st = "done"
          /\ ~tasks[i].result.success
    /\ rpc = "returned" =>
          /\ Len(returned.v) = Len(tasks)
          /\ \A i \in DOMAIN tasks :
                /\ tasks[i].request # PyNone
                /\ returned.v[i] = tasks[i].result
                /\ i \notin Failed =>
                      /\ tasks[i].result.error = PyNone
                      /\ tasks[i].result.status \in Statuses

\* the first task and another one failed, the third was answered with
\* success, and the dispatch returned
C4_Witness ==
    /\ rpc = "returned"
    /\ Len(tasks) = 3
    /\ 1 \in Failed
    /\ \E i \in DOMAIN tasks \ Failed : tasks[i].result.success
    /\ \E i \in Failed : i > 1

(***************************************************************************)
(* C10: a campaign issues one login POST; when the reply is not a 2xx      *)
(* response or the POST raises, no token is stored, nothing is raised,     *)
(* every request task is still dispatched, and no request carries an       *)
(* Authorization header.                                                   *)
(***************************************************************************)
LoginFailed ==
    /\ rpc \notin {"idle", "login"}
    /\ \/ login.reply.raised
       \/ ~(200 <= login.reply.status /\ login.reply.status < 300)

HasAuthorization(request) ==
    /\ request.headers # PyNone
    /\ "Authorization" \in DOMAIN request.headers.v

C10_LoginOnceDegrades ==
    /\ login.posts = IF rpc = "idle" THEN 0 ELSE 1
    /\ LoginFailed =>
          /\ runner.auth_token = PyNone
          /\ rpc # "raised"
          /\ \A i \in DOMAIN tasks :
                tasks[i].request # PyNone => ~HasAuthorization(tasks[i].request)
          /\ rpc = "returned" =>
                /\ Len(tasks) = Len(campaign.endpoints)
                                   * campaign.requests_per_endpoint
                /\ \A i \in DOMAIN tasks : tasks[i].request # PyNone

\* the login was refused with a body that holds a token; the campaign
\* returned, and a request to an endpoint that needs auth was sent with
\* empty headers and answered
C10_Witness ==
    /\ rpc = "returned"
    /\ ~login.reply.raised /\ login.reply.status = 401
    /\ \E i \in DOMAIN tasks :
          /\ tasks[i].endpoint_config.auth
          /\ tasks[i].request.headers = PyDict(NoFunction)
          /\ ~tasks[i].raised
    /\ \E i \in DOMAIN tasks : ~tasks[i].endpoint_config.auth

(***************************************************************************)
(* C11: after a KeyboardInterrupt during the dispatch of generate no task  *)
(* sends a request any more, the command ends with the warning and not     *)
(* with an error, and the results of the tasks that had ended are in       *)
(* runner.results.                                                         *)
(***************************************************************************)
C11_InterruptKeepsOutcomes ==
    rpc = "interrupted" =>
        /\ cmd.status = "warning"
        /\ \A i \in DOMAIN tasks : tasks[i].st \in {"done", "cancelled"}
        /\ \A i \in DOMAIN tasks :
              tasks[i].st = "done" =>
                 \E k \in DOMAIN runner.results :
                    runner.results[k] = tasks[i].result

(***************************************************************************)
(* C12: for a name "<d>s _ <endpoint> ?profile=1 _ <ts>.html" the first    *)
(* pattern is the one that matches, and the record has duration d,         *)
(* timestamp ts, the endpoint text without the underscores and whitespace  *)
(* around it, and app users for the endpoint api/v1/users.                 *)
(***************************************************************************)
DigitChar(n) == CHOOSE c \in Digits : DigitVal(c) = n

RECURSIVE NatDigits(_)
\* the decimal digits of a natural number
NatDigits(n) ==
    IF n < 10 THEN <<DigitChar(n)>>
    ELSE Append(NatDigits(n \div 10), DigitChar(n % 10))

C12_CanonicalParse ==
    (parsed # PyNone /\ ~parsed.raised) =>
        \A c \in CanonicalParts :
            pfile.name = CanonicalName(c.d, c.endpoint, c.ts) =>
                /\ FirstMatch(pfile.name) = 1
                /\ parsed.duration = FloatOf(c.d)
                /\ NatDigits(parsed.timestamp.v) = c.ts
                /\ parsed.endpoint = PyStr(Strip(c.endpoint, {"_"} \cup Whitespace))
                /\ c.endpoint = <<"a","p","i","/","v","1","/","u","s","e","r","s">>
                      => parsed.app = PyStr(<<"u","s","e","r","s">>)

(***************************************************************************)
(* C13: every record _parse_filename returns has an endpoint that is not   *)
(* the empty string and an app that is not the empty string.               *)
(***************************************************************************)
C13_EndpointAndAppNonEmpty ==
    (parsed # PyNone /\ ~parsed.raised) =>
        /\ parsed.endpoint.v # <<>>
        /\ parsed.app.v # <<>>

\* the record of a name whose app is the empty string
C13_EmptyApp ==
    /\ parsed # PyNone /\ ~parsed.raised
    /\ parsed.endpoint.v # <<>>
    /\ parsed.app.v = <<>>

(***************************************************************************)
(* C14: after a scan avg_duration is the mean of the durations of the      *)
(* records whose duration is not None, a duration of 0 included; fastest   *)
(* and slowest are records of the least and the largest such duration;     *)
(* without such a record avg_duration is 0 and fastest and slowest are     *)
(* None.                                                                   *)
(***************************************************************************)
HasDuration(r) == r.duration # PyNone
EqNum(a, b) == NumOf(a) * DenOf(b) = NumOf(b) * DenOf(a)

RECURSIVE SumDurations(_)
SumDurations(records) ==
    IF records = <<>> THEN PyInt(0)
    ELSE AddF(SumDurations(Tail(records)), Head(records).duration)

C14_AverageOverKnown ==
    apc = "ready" =>
        LET known == SelectSeq(analyzer.analyzed_profiles, HasDuration)
            stats == analyzer.stats
        IN  IF known = <<>>
            THEN /\ EqNum(stats.avg_duration, PyInt(0))
                 /\ stats.fastest = PyNone
                 /\ stats.slowest = PyNone
            ELSE /\ EqNum(stats.avg_duration, DivF(SumDurations(known), Len(known)))
                 /\ stats.fastest \in Range(known)
                 /\ stats.slowest \in Range(known)
                 /\ \A r \in Range(known) :
                       /\ ~LtF(r.duration, stats.fastest.duration)
                       /\ ~LtF(stats.slowest.duration, r.duration)

\* a scan of a record of duration 0.0 and a record of duration 0.5
C14_ZeroAndHalf ==
    /\ apc = "ready"
    /\ \E r \in Range(analyzer.analyzed_profiles) : r.duration = PyFloat(0, 1)
    /\ \E r \in Range(analyzer.analyzed_profiles) : r.duration = PyFloat(1, 2)
    /\ analyzer.stats.avg_duration = PyFloat(1, 2)

(***************************************************************************)
(* The duration on a profile card (_generate_profile_cards, line 1039):    *)
(* the duration with three decimals and an s, or N/A                       *)
(***************************************************************************)
Format3f(x) == [t |-> "%.3fs", of |-> x]
duration_str(profile) ==
    IF Truthy(profile.duration) THEN Format3f(profile.duration)
    ELSE PyStr(<<"N","/","A">>)

(***************************************************************************)
(* C15: the fold, the sort by duration and the duration display tell a     *)
(* record without duration from a record of duration 0: the fold counts    *)
(* every duration that is not None, the sort does not give a record        *)
(* without duration the key 0, and N/A is displayed for a record without   *)
(* duration only.                                                          *)
(***************************************************************************)
C15_AbsentIsNotZero ==
    apc = "ready" =>
        /\ Len(aloop.durations)
              = Len(SelectSeq(analyzer.analyzed_profiles, HasDuration))
        /\ \A r \in Range(analyzer.analyzed_profiles) :
              /\ r.duration = PyNone => SortKey(r, "duration") # PyInt(0)
              /\ duration_str(r) = PyStr(<<"N","/","A">>) <=> r.duration = PyNone

\* a record without duration sorted before a record of duration 0.0, both
\* displayed as N/A
C15_SortedAsEqual ==
    /\ lastCall # PyNone
    /\ lastCall.sort_by = "duration"
    /\ \E i \in DOMAIN lastCall.result :
          /\ i < Len(lastCall.result)
          /\ lastCall.result[i].duration = PyNone
          /\ lastCall.result[i + 1].duration = PyFloat(0, 1)
          /\ duration_str(lastCall.result[i]) = duration_str(lastCall.result[i + 1])

(***************************************************************************)
(* C16: get_filtered_profiles returns exactly the records whose app equals *)
(* the app filter (all records when no filter is given), ordered by the    *)
(* selected key (timestamp, duration or size) in non-increasing order,     *)
(* with the limit applied only after filtering and sorting: what the limit *)
(* cuts off is never above what it keeps.  The analyzer's own record list  *)
(* stays in scan order.                                                    *)
(***************************************************************************)
KeyOf(p, sort_by) ==
    CASE sort_by = "time" -> p.timestamp
      [] sort_by = "duration" -> p.duration
      [] sort_by = "size" -> p.size

\* a record with key a may stand before a record with key b: b is not above
\* a, a record without a key being above no record that has one
MayPrecede(a, b) ==
    IF a = PyNone THEN ~Truthy(b)
    ELSE IF b = PyNone THEN TRUE
    ELSE ~LtF(a, b)

Wanted(c) ==
    {r \in Range(analyzer.analyzed_profiles) : Truthy(c.app_filter) => r.app = c.app_filter}

NonIncreasing(c) ==
    \A i, j \in DOMAIN c.result :
        i < j => MayPrecede(KeyOf(c.result[i], c.sort_by), KeyOf(c.result[j], c.sort_by))

CutAfterSort(c) ==
    /\ Len(c.result) = IF c.limit = PyNone \/ c.limit.v = 0 THEN Cardinality(Wanted(c))
                       ELSE Min(c.limit.v, Cardinality(Wanted(c)))
    /\ \A r \in Range(c.result), w \in Wanted(c) \ Range(c.result) :
          MayPrecede(KeyOf(r, c.sort_by), KeyOf(w, c.sort_by))

InScanOrder ==
    /\ Len(analyzer.analyzed_profiles) = Len(analyzer.profile_files)
    /\ \A i \in DOMAIN analyzer.analyzed_profiles :
          analyzer.analyzed_profiles[i].filename = analyzer.profile_files[i]

C16_FilterSortLimit ==
    lastCall # PyNone =>
        /\ Range(lastCall.result) \subseteq Wanted(lastCall)
        /\ Cardinality(Range(lastCall.result)) = Len(lastCall.result)
        /\ NonIncreasing(lastCall)
        /\ CutAfterSort(lastCall)
        /\ InScanOrder

\* a filtered, limited call that had to reorder the records and cut some off
C16_Witness ==
    /\ lastCall # PyNone
    /\ Truthy(lastCall.app_filter)
    /\ lastCall.limit = PyInt(1)
    /\ Cardinality(Wanted(lastCall)) = 2
    /\ Wanted(lastCall) # Range(analyzer.analyzed_profiles)
    /\ lastCall.result[1] = analyzer.analyzed_profiles[Len(analyzer.analyzed_profiles)]
    /\ \E w \in Wanted(lastCall) :
          LtF(KeyOf(w, lastCall.sort_by), KeyOf(lastCall.result[1], lastCall.sort_by))

(***************************************************************************)
(* C17: analyze, serve and dashboard leave the trace directory as it was:  *)
(* after an invocation of any of them, dashboard with its default output   *)
(* path included, a scan of the directory yields the same set of trace     *)
(* records as a scan before the invocation.                                *)
(***************************************************************************)
ScanOf(d) == {_parse_filename(n, Stat(d, n)) : n \in Glob(d)}

C17_ScanUnchanged ==
    (cmd # PyNone /\ cmd.action \in {"analyze", "serve", "dashboard"})
        => ScanOf(dir) = ScanOf(cmd.before.dir)

\* an analyze that lists the dashboard an earlier invocation wrote as a trace
C17_DashboardScanned ==
    /\ cmd # PyNone
    /\ cmd.action = "analyze"
    /\ cmd.status = "ok"
    /\ \E i \in DOMAIN cmd.out.v : cmd.out.v[i].filename = DashboardName
    /\ \E n \in DOMAIN dir : n # DashboardName

(***************************************************************************)
(* C18: generate invoked with a config path that does not exist writes a   *)
(* default config there and returns successfully without a login POST or   *)
(* an endpoint request; a config file that exists is never overwritten.    *)
(***************************************************************************)
NoHttpRequest ==
    /\ rpc = "none"
    /\ runner = PyNone
    /\ login = PyNone
    /\ tasks = <<>>

FirstRun == cmd.before.disk.config = PyNone

C18_FirstRunWritesDefault ==
    (cmd # PyNone /\ cmd.action = "generate") =>
        IF FirstRun
        THEN /\ disk.config # PyNone
             /\ disk.config.json
             /\ Len(disk.config.endpoint_groups) = 2
             /\ cmd.status = "ok"
             /\ NoHttpRequest
        ELSE disk.config = cmd.before.disk.config

\* a first run that wrote the default config
C18_Witness ==
    /\ cmd # PyNone
    /\ cmd.action = "generate"
    /\ FirstRun
    /\ disk.config = DefaultConfig

(***************************************************************************)
(* C19: when deleting a candidate fails in a clean that is no dry run, the *)
(* invocation ends with a command error: the failing file is not reported  *)
(* as deleted, the candidates before it stay deleted and no candidate      *)
(* after it is deleted; a clean reported as successful has deleted every   *)
(* candidate.                                                              *)
(***************************************************************************)
FailedAt == clean.files_to_delete[clean.i + 1]

C19_UnlinkFailureIsFatal ==
    /\ cpc = "error" =>
          /\ ~clean.dry_run
          /\ clean.i < Len(clean.files_to_delete)
          /\ clean.deleted = SubSeq(clean.files_to_delete, 1, clean.i)
          /\ \A k \in 1..clean.i : clean.files_to_delete[k] \notin DOMAIN dir
          /\ \A k \in (clean.i + 1)..Len(clean.files_to_delete) :
                clean.files_to_delete[k] \in DOMAIN dir
    /\ (cpc = "done" /\ clean # PyNone /\ ~clean.dry_run) =>
          /\ clean.deleted = clean.files_to_delete
          /\ \A k \in DOMAIN clean.files_to_delete :
                clean.files_to_delete[k] \notin DOMAIN dir

\* the second of three deletions failed
C19_Witness ==
    /\ cpc = "error"
    /\ Len(clean.files_to_delete) = 3
    /\ clean.i = 1
    /\ FailedAt \in DOMAIN dir
    /\ clean.deleted = <<clean.files_to_delete[1]>>

(***************************************************************************)
(* C20: when the trace directory does not exist, analyze and dashboard end *)
(* with a command error before any scan or output is produced.             *)
(***************************************************************************)
MissingDirectory ==
    /\ cmd # PyNone
    /\ cmd.action \in {"analyze", "dashboard"}
    /\ ~cmd.before.disk.profiles

C20_MissingDirectoryIsFatal ==
    MissingDirectory =>
        /\ cmd.status = "error"
        /\ cmd.out = PyNone
        /\ disk = cmd.before.disk

\* analyze on a missing directory: the directory is made and the empty
\* scan is reported as a success
C20_AnalyzeMadeDirectory ==
    /\ MissingDirectory
    /\ cmd.action = "analyze"
    /\ cmd.status = "ok"
    /\ cmd.out = PyList(<<>>)
    /\ disk.profiles

(***************************************************************************)
(* C21: the app of an endpoint is the label of the earliest category, in   *)
(* the order admin, auth, schema, profiling tools, static/media, celery    *)
(* monitor, versioned API, health check, error pages, whose markers its    *)
(* lower-cased text matches; the versioned API category names a path       *)
(* segment or 'api', and an endpoint of no category gets a path segment or *)
(* 'other'.                                                                *)
(***************************************************************************)
AppCategories ==
    <<[markers |-> {<<"a","d","m","i","n">>}, whole |-> {},
       label |-> <<"a","d","m","i","n">>],
      [markers |-> {<<"a","u","t","h">>}, whole |-> {},
       label |-> <<"a","u","t","h">>],
      [markers |-> {<<"s","c","h","e","m","a">>}, whole |-> {},
       label |-> <<"a","p","i","_","s","c","h","e","m","a">>],
      [markers |-> {<<"s","i","l","k">>, <<"r","o","s","e","t","t","a">>}, whole |-> {},
       label |-> <<"p","r","o","f","i","l","i","n","g","_","t","o","o","l","s">>],
      [markers |-> {<<"s","t","a","t","i","c">>, <<"m","e","d","i","a">>}, whole |-> {},
       label |-> <<"s","t","a","t","i","c","_","m","e","d","i","a">>],
      [markers |-> {<<"f","l","o","w","e","r">>}, whole |-> {},
       label |-> <<"c","e","l","e","r","y","_","m","o","n","i","t","o","r","i","n","g">>],
      [markers |-> {<<"a","p","i","/","v","1">>}, whole |-> {},
       label |-> <<>>],
      [markers |-> {}, whole |-> {<<>>, <<"/">>},
       label |-> <<"h","e","a","l","t","h","_","c","h","e","c","k","s">>],
      [markers |-> {<<"4","0","4">>, <<"5","0","0">>, <<"e","r","r","o","r">>}, whole |-> {},
       label |-> <<"e","r","r","o","r","_","p","a","g","e","s">>]>>

\* the versioned API category has no label of its own
VersionedApi(i) == AppCategories[i].label = <<>>

MatchingCategories(endpoint) ==
    {i \in DOMAIN AppCategories :
        \/ \E m \in AppCategories[i].markers : Contains(Lower(endpoint), m)
        \/ Lower(endpoint) \in AppCategories[i].whole}

Earliest(S) == CHOOSE i \in S : \A k \in S : i <= k

SegmentsOf(endpoint) == Range(Split(endpoint))

AppLabelOk(endpoint, app, matching) ==
    IF matching = {}
    THEN app \in SegmentsOf(endpoint) \cup {<<"o","t","h","e","r">>}
    ELSE IF VersionedApi(Earliest(matching))
    THEN app \in SegmentsOf(endpoint) \cup {<<"a","p","i">>}
    ELSE app = AppCategories[Earliest(matching)].label

C21_FirstMatchWins ==
    (parsed # PyNone /\ ~parsed.raised) =>
        AppLabelOk(parsed.endpoint.v, parsed.app.v, MatchingCategories(parsed.endpoint.v))

\* 'api/v1/auth/static' matches three categories and is 'auth'
C21_Witness ==
    /\ parsed # PyNone
    /\ ~parsed.raised
    /\ parsed.endpoint.v = <<"a","p","i","/","v","1","/","a","u","t","h","/","s","t","a","t","i","c">>
    /\ MatchingCategories(parsed.endpoint.v) = {2, 5, 7}
    /\ parsed.app.v = <<"a","u","t","h">>

(***************************************************************************)
(* C22: for every endpoint that contains 'api/v1', in any case and at any  *)
(* place, and matches no earlier category, the app is the first path       *)
(* segment that follows the version prefix.                                *)
(***************************************************************************)
ApiV1 == <<"a","p","i","/","v","1">>

\* the text after the first 'api/v1' of the endpoint, in any case
AfterVersion(endpoint) ==
    LET at == CHOOSE i \in 0..Len(endpoint) :
                 /\ StartsAt(Lower(endpoint), ApiV1, i)
                 /\ \A k \in 0..(i - 1) : ~StartsAt(Lower(endpoint), ApiV1, k)
    IN Drop(endpoint, at + Len(ApiV1))

\* the endpoint goes on after the version prefix with '/' and a segment
HasFollowingSegment(endpoint) ==
    /\ Len(AfterVersion(endpoint)) > 1
    /\ AfterVersion(endpoint)[1] = "/"
    /\ Split(AfterVersion(endpoint))[2] # <<>>

IsVersionedApi(endpoint) ==
    /\ MatchingCategories(endpoint) # {}
    /\ VersionedApi(Earliest(MatchingCategories(endpoint)))

C22_AppFollowsVersion ==
    (parsed # PyNone /\ ~parsed.raised /\ IsVersionedApi(parsed.endpoint.v)
        /\ HasFollowingSegment(parsed.endpoint.v))
    => parsed.app.v = Split(AfterVersion(parsed.endpoint.v))[2]

\* 'users/api/v1/users' is 'api': the prefix is not at the start
C22_PrefixedIsApi ==
    /\ parsed # PyNone
    /\ ~parsed.raised
    /\ parsed.endpoint.v = <<"u","s","e","r","s","/">> \o ApiV1 \o <<"/","u","s","e","r","s">>
    /\ parsed.app.v = <<"a","p","i">>

(***************************************************************************)
(* C23: when the timestamp token of a filename cannot be parsed as an      *)
(* integer epoch, or the filename carries no timestamp token, the record's *)
(* timestamp is the file's modification time and formatted_time is derived *)
(* from it; no exception is raised.                                        *)
(***************************************************************************)
TokenOfName == ParseLocals(pfile.name).timestamp

NoEpochToken == IsNone(TokenOfName) \/ ~(IsDigits(TokenOfName.v) /\ EpochInRange(TokenOfName.v))

C23_TimestampFallsBackToMtime ==
    (parsed # PyNone /\ NoEpochToken) =>
        /\ ~parsed.raised
        /\ parsed.timestamp = PyInt(pfile.st.mtime)
        /\ parsed.formatted_time = FormatTime(pfile.st.mtime)

\* a token with a decimal point: timestamp 0 and 'Unknown', not the
\* modification time
C23_UnparsedTokenIsZero ==
    /\ parsed # PyNone
    /\ ~IsNone(TokenOfName)
    /\ ~IsDigits(TokenOfName.v)
    /\ pfile.st.mtime # 0
    /\ ~parsed.raised
    /\ parsed.timestamp = PyInt(0)
    /\ parsed.formatted_time = PyStr(<<"U","n","k","n","o","w","n">>)

(***************************************************************************)
(* C24: when a filename matches none of the ordered patterns, the record's *)
(* duration is the first numeric substring that contains a decimal point   *)
(* (absent if there is none), its timestamp token is the last numeric      *)
(* substring, and its endpoint is the filename with all digits and the     *)
(* '.html' extension removed.                                              *)
(***************************************************************************)
NumbersOf(filename) == FindNumbers(filename, 0)

HasPoint(tok) == \E i \in 1..Len(tok) : tok[i] = "."

FirstWithPoint(numbers) ==
    LET with == {i \in DOMAIN numbers : HasPoint(numbers[i])}
    IN IF with = {} THEN PyNone
       ELSE FloatOf(numbers[CHOOSE i \in with : \A k \in with : i <= k])

LastNumber(numbers) ==
    IF numbers = <<>> THEN PyNone ELSE PyStr(numbers[Len(numbers)])

NotDigit(c) == c \notin Digits

WithoutDigitsAndExt(filename) == SubHtmlEnd(SelectSeq(filename, NotDigit))

NoPatternMatched == parsed # PyNone /\ ~parsed.raised /\ FirstMatch(pfile.name) = 0

C24_FallbackFields ==
    NoPatternMatched =>
        /\ parsed.duration = FirstWithPoint(NumbersOf(pfile.name))
        /\ ParseLocals(pfile.name).timestamp = LastNumber(NumbersOf(pfile.name))
        /\ parsed.endpoint.v = WithoutDigitsAndExt(pfile.name)

\* 'a1.html': the number taken out is '1.', the endpoint is 'ahtml', the
\* duration 1.0 and there is no timestamp token
C24_ExtensionDotInNumber ==
    /\ NoPatternMatched
    /\ pfile.name = <<"a","1",".","h","t","m","l">>
    /\ parsed.endpoint.v = <<"a","h","t","m","l">>
    /\ parsed.duration = PyFloat(1, 1)
    /\ IsNone(ParseLocals(pfile.name).timestamp)

(***************************************************************************)
(* C25: a scan parses each listed file on its own: a file deleted between  *)
(* the directory listing and its stat never aborts the scan, and the       *)
(* records of all other listed files are still produced.                   *)
(***************************************************************************)
C25_ScanSurvivesDeletion == apc # "raised"

\* the scan ended at its first file, which was deleted after the listing;
\* the other two listed files are still there and have no record
C25_ScanAborted ==
    /\ apc = "raised"
    /\ Len(analyzer.profile_files) = 3
    /\ analyzer.analyzed_profiles = <<>>
    /\ analyzer.profile_files[1] \notin DOMAIN dir
    /\ analyzer.profile_files[2] \in DOMAIN dir
    /\ analyzer.profile_files[3] \in DOMAIN dir

(***************************************************************************)
(* C26: an interrupt at any point of generate or dashboard leaves no       *)
(* truncated output: the summary of a campaign is printed only after       *)
(* every request task has completed, and the dashboard output file is      *)
(* absent or untouched or holds the complete document.                     *)
(***************************************************************************)
SummaryPrinted == cmd # PyNone /\ cmd.action = "generate" /\ cmd.out # PyNone

\* the dashboard file at the path the invocation writes to, PyNone if absent
OutputFile(d, k, output) ==
    IF Truthy(output) THEN k.output
    ELSE IF DashboardName \in DOMAIN d THEN d[DashboardName] ELSE PyNone

DashboardLeft ==
    /\ cmd # PyNone
    /\ cmd.action = "dashboard"
    /\ cmd.status \in {"ok", "warning"}

C26_NoTruncatedOutput ==
    /\ SummaryPrinted => \A i \in DOMAIN tasks : tasks[i].st = "done"
    /\ DashboardLeft =>
          OutputFile(dir, disk, cmd.out.output)
             \in {OutputFile(cmd.before.dir, cmd.before.disk, cmd.out.output),
                  cmd.out.document}

\* the interrupted dashboard emptied the dashboard of an earlier invocation
C26_OldDashboardEmptied ==
    /\ DashboardLeft
    /\ cmd.status = "warning"
    /\ cmd.before.disk.output = OldDocument
    /\ disk.output = EmptyDocument

(***************************************************************************)
(* C27: print_summary does not depend on arrival order: every permutation  *)
(* of the same outcome list gives the same per-endpoint request, success   *)
(* and error counts, the same minimum and maximum duration and the same    *)
(* overall totals; the endpoint groups come in sorted endpoint order; in   *)
(* every group successes + errors = requests and the group request counts  *)
(* sum to the overall total; the outcome list is left unchanged.           *)
(***************************************************************************)
Summarized == cmd # PyNone /\ cmd.action = "summary"

\* the same outcomes in another order
Rearranged(results) ==
    {[i \in DOMAIN results |-> results[o[i]]] : o \in Orders(DOMAIN results)}

RECURSIVE SumRequests(_)
SumRequests(groups) ==
    IF groups = <<>> THEN 0 ELSE Head(groups).requests + SumRequests(Tail(groups))

C27_OrderIndependent ==
    Summarized =>
        LET printed == cmd.out.printed
            groups == printed.endpoints
        IN /\ \A other \in Rearranged(cmd.out.given) : print_summary(other) = printed
           /\ \A i, j \in DOMAIN groups :
                i < j => StrLess(groups[i].endpoint, groups[j].endpoint)
           /\ \A i \in DOMAIN groups :
                /\ groups[i].successful + groups[i].errors = groups[i].requests
                /\ groups[i].requests =
                     Cardinality({k \in DOMAIN cmd.out.given :
                                     cmd.out.given[k].endpoint = groups[i].endpoint})
                /\ \E k \in DOMAIN cmd.out.given :
                     /\ cmd.out.given[k].endpoint = groups[i].endpoint
                     /\ ~groups[i].min_duration.inf
                     /\ cmd.out.given[k].duration = groups[i].min_duration.v
                /\ \E k \in DOMAIN cmd.out.given :
                     /\ cmd.out.given[k].endpoint = groups[i].endpoint
                     /\ cmd.out.given[k].duration = groups[i].max_duration
                /\ groups[i].min_duration.v <= groups[i].max_duration
           /\ SumRequests(groups) = Len(cmd.out.given)
           /\ cmd.out.given # <<>> =>
                /\ printed.overall.total_requests = Len(cmd.out.given)
                /\ printed.overall.successful + printed.overall.failed
                     = printed.overall.total_requests
           /\ runner.results = cmd.out.given

\* three outcomes of two endpoints that arrived in unsorted endpoint order,
\* the slower request of a group first
C27_Witness ==
    /\ Summarized
    /\ Len(cmd.out.given) = 3
    /\ Len(cmd.out.printed.endpoints) = 2
    /\ StrLess(cmd.out.given[3].endpoint, cmd.out.given[1].endpoint)
    /\ cmd.out.given[1].endpoint = cmd.out.given[2].endpoint
    /\ cmd.out.given[1].duration > cmd.out.given[2].duration
    /\ cmd.out.printed.endpoints[2].errors = 1

(***************************************************************************)
(* C28: when every request ends, run_endpoint_tests eventually returns for *)
(* every work list and every concurrency >= 1: every task that has not     *)
(* got a permit yet eventually holds one, and when the dispatch has        *)
(* returned every permit is back in the semaphore and nobody waits.        *)
(***************************************************************************)
NotYetAdmitted(i) ==
    /\ rpc = "gathering"
    /\ i \in DOMAIN tasks
    /\ tasks[i].st \in {"created", "waiting"}

Admitted(i) == i \in DOMAIN tasks /\ tasks[i].permit

AllPermitsFree ==
    /\ semaphore.value = campaign.concurrent
    /\ semaphore.waiters = <<>>
    /\ Holding = {}

C28_DispatchTerminates ==
    /\ (rpc = "entered") ~> (rpc = "returned")
    /\ \A i \in 1..MaxTasks : NotYetAdmitted(i) ~> Admitted(i)
    /\ [](rpc = "returned" => AllPermitsFree)

\* a dispatch of more tasks than permits has returned, every task having
\* sent its request
C28_Witness ==
    /\ rpc = "returned"
    /\ campaign.concurrent >= 1
    /\ Len(tasks) > campaign.concurrent
    /\ \A i \in DOMAIN tasks : tasks[i].request # PyNone
    /\ AllPermitsFree

(***************************************************************************)
(* C29: whatever order the concurrent requests end in, the list returned   *)
(* by run_endpoint_tests is in work-list order: element i is the outcome   *)
(* of the i-th created task, the endpoints in input order and the repeats  *)
(* of an endpoint next to each other.                                      *)
(***************************************************************************)
\* the entry of the endpoint list the i-th element of the work list is for
WorkItem(i) == campaign.endpoints[((i - 1) \div campaign.requests_per_endpoint) + 1]

C29_ReturnedInWorkListOrder ==
    rpc = "returned" =>
        /\ Len(returned.v) = Len(campaign.endpoints) * campaign.requests_per_endpoint
        /\ \A i \in DOMAIN returned.v :
              /\ tasks[i].endpoint_config = WorkItem(i)
              /\ returned.v[i] = tasks[i].result
              /\ returned.v[i].endpoint = WithProfileParam(WorkItem(i).endpoint)
              /\ returned.v[i].auth_used = WorkItem(i).auth
        /\ \A i, j \in DOMAIN returned.v :
              (i < j /\ returned.v[i].endpoint = returned.v[j].endpoint
                     /\ Len(campaign.endpoints) = 2
                     /\ campaign.endpoints[1] # campaign.endpoints[2]) =>
                 \A k \in i..j : returned.v[k].endpoint = returned.v[i].endpoint

\* two endpoints, two requests each under two permits: the requests ended
\* in the order 2, 3, 4, 1 of their tasks, the first task with another
\* status than the last
C29_Witness ==
    /\ rpc = "returned"
    /\ Len(returned.v) = 4
    /\ Len(campaign.endpoints) = 2
    /\ campaign.endpoints[1] # campaign.endpoints[2]
    /\ tasks[1].nth = 4
    /\ tasks[2].nth = 1
    /\ tasks[3].nth = 2
    /\ returned.v[1].status = 200
    /\ returned.v[4].status = 400

(***************************************************************************)
(* C30: in serve an absent limit ('none' or '0') is replaced by 20 for the *)
(* link listing: the listing of start_profile_server has at most 20        *)
(* records when no limit is given and at most the given limit otherwise;   *)
(* analyze with an absent limit truncates nothing.                         *)
(***************************************************************************)
Serving == cmd # PyNone /\ cmd.action = "serve" /\ cmd.status = "serving"

C30_ServeListingCapped ==
    /\ Serving =>
          IF ParseLimit(cmd.out.limit) = PyNone
          THEN Len(cmd.out.listed) <= DefaultLimit
          ELSE Len(cmd.out.listed) <= ParseLimit(cmd.out.limit).v
    /\ (cmd # PyNone /\ cmd.action = "analyze" /\ cmd.status = "ok") =>
          \A s \in {<<"n","o","n","e">>, <<"0">>}, sort_by \in SortKeys :
             Len(get_filtered_profiles(cmd.out.v, PyNone, ParseLimit(s), sort_by))
                = Len(cmd.out.v)

\* serve --limit -1 over two traces: one record is listed, more than -1
C30_NegativeLimit ==
    /\ Serving
    /\ cmd.out.limit = <<"-","1">>
    /\ Cardinality(Glob(cmd.before.dir)) = 2
    /\ Len(cmd.out.listed) = 1

====
